---- MODULE Spec2Model ----
(***************************************************************************)
(* A model of the query encoder of nexuer/ghttp (package query,            *)
(* encode.go): Values and the traversal functions it calls, over a model   *)
(* of the reflect values they inspect (specification Spec), of the         *)
(* recursion of that traversal call by call (specification WalkSpec), of   *)
(* the content-type registry of package ghttp under concurrent calls       *)
(* (specification RegistrySpec), of NewClient and the transports the       *)
(* clients share (specification ClientSpec) and of one call of Client.Do   *)
(* or Client.Invoke step by step (specification CallSpec).                 *)
(*                                                                         *)
(* Representation.                                                         *)
(*  - A Go value seen through reflect is a record with the fields          *)
(*    kind, typ, b, n, s, elem, xs, kv, fs (see MkValue).  typ is the type *)
(*    as a sequence of tokens, one "*" per pointer level.                  *)
(*  - A Go string that the code only concatenates or compares is a TLA+    *)
(*    string.  A struct tag, which the code splits at "," and ":", is a    *)
(*    sequence of lexemes: each lexeme is "," or ":" or a piece of text    *)
(*    holding neither.                                                     *)
(*  - A query string, which the code scans byte by byte, is a TLA+ string  *)
(*    read with Len and SubSeq.                                            *)
(*  - url.Values is a function from keys to sequences of values.           *)
(*  - A map's entries are kept in ascending key order (the order fmt       *)
(*    prints them in); the order in which one range statement visits them  *)
(*    is chosen when Values is called (the field iter of the traversal     *)
(*    state).                                                              *)
(*  - A panic is recorded in the field panic of the traversal state and    *)
(*    stops the traversal, as an error does.                               *)
(***************************************************************************)
EXTENDS Integers, Sequences, FiniteSets, TLC

VARIABLES
    input,               \* the argument v of Values
    defaultScopeJoiner,  \* the package variable set by SetScopeJoiner
    result,              \* what the call of Values produced
    pc,                  \* "ready" before the call, "done" after it, "changed"
                         \* once the caller has changed the result
    subType,             \* the map of the content-type registry
    mu,                  \* the goroutine holding the registry's lock, 0 for none
    goroutine,           \* the goroutines calling the registry
    fatal,               \* the run time has stopped the program
    walk,                \* the calls of the traversal that are open
    transports,          \* the *http.Transport values, by the pointer to them
    clients,             \* the clients made by NewClient, oldest first
    call                 \* the call of Client.Do or Client.Invoke that is open

queryVars == <<input, defaultScopeJoiner, result, pc>>

registryVars == <<subType, mu, goroutine, fatal>>

clientVars == <<transports, clients, call>>

vars ==
    <<input, defaultScopeJoiner, result, pc, subType, mu, goroutine, fatal, walk,
      transports, clients, call>>

\* what the steps of the encoder, of the registry, of the open calls of the
\* traversal and of the clients leave alone
notQuery == <<registryVars, walk, clientVars>>
notRegistry == <<queryVars, walk, clientVars>>
notWalk == <<queryVars, registryVars, clientVars>>
notClient == <<queryVars, registryVars, walk>>

(***************************************************************************)
(* Bounds of the model.                                                    *)
(***************************************************************************)
MaxSliceLen == 3
MaxMapLen == 2
NumGoroutines == 2
MaxDepth == 8

(***************************************************************************)
(* Strings.                                                                *)
(***************************************************************************)
RECURSIVE Concat(_)
Concat(parts) ==
    IF parts = <<>> THEN "" ELSE Head(parts) \o Concat(Tail(parts))

Digit(d) ==
    CASE d = 0 -> "0" [] d = 1 -> "1" [] d = 2 -> "2" [] d = 3 -> "3"
      [] d = 4 -> "4" [] d = 5 -> "5" [] d = 6 -> "6" [] d = 7 -> "7"
      [] d = 8 -> "8" [] d = 9 -> "9"

RECURSIVE Itoa(_)
Itoa(n) ==
    IF n < 0 THEN "-" \o Itoa(0 - n)
    ELSE IF n < 10 THEN Digit(n)
    ELSE Itoa(n \div 10) \o Digit(n % 10)

RECURSIVE JoinStrings(_, _)
JoinStrings(parts, sep) ==
    IF parts = <<>> THEN ""
    ELSE IF Len(parts) = 1 THEN parts[1]
    ELSE parts[1] \o sep \o JoinStrings(Tail(parts), sep)

\* strings.Split over a sequence of lexemes: the pieces between the lexemes sep
RECURSIVE SplitLexemes(_, _, _)
SplitLexemes(lex, sep, cur) ==
    IF lex = <<>> THEN <<cur>>
    ELSE IF Head(lex) = sep THEN <<cur>> \o SplitLexemes(Tail(lex), sep, <<>>)
    ELSE SplitLexemes(Tail(lex), sep, Append(cur, Head(lex)))

(***************************************************************************)
(* url.Values and the state threaded through one traversal.                *)
(***************************************************************************)
NoValues == [k \in {} |-> <<>>]

ValuesAdd(m, k, v) ==
    IF k \in DOMAIN m THEN [m EXCEPT ![k] = Append(@, v)] ELSE (k :> <<v>>) @@ m

ValuesSet(m, k, v) ==
    IF k \in DOMAIN m THEN [m EXCEPT ![k] = <<v>>] ELSE (k :> <<v>>) @@ m

\* values: the url.Values being filled; adds: every Add/Set in the order made;
\* calls: every EncodeValues call made; err: the error returned ("" is nil);
\* panic: the run-time panic that ended the call ("" is none); iter: the order
\* in which this call's range statements visit map entries, a permutation of
\* 1..MaxMapLen of which a map of n entries uses the numbers up to n; shared:
\* the url.Values returned is the very map the caller passed in
NewState(iter) ==
    [values |-> NoValues, adds |-> <<>>, calls |-> <<>>, err |-> "", panic |-> "",
     iter |-> iter, shared |-> FALSE]

\* a traversal that goes on after an encoder's error
FailedOnPanicOnly(R) == R.panic # ""

Failed(R) == R.err # "" \/ R.panic # ""

Add(R, k, v) ==
    [R EXCEPT !.values = ValuesAdd(@, k, v), !.adds = Append(@, <<"Add", k, v>>)]

Set(R, k, v) ==
    [R EXCEPT !.values = ValuesSet(@, k, v), !.adds = Append(@, <<"Set", k, v>>)]

Panic(R, msg) == [R EXCEPT !.panic = msg]

Error(R, msg) == [R EXCEPT !.err = msg]

PanicZeroType == "reflect: call of reflect.Value.Type on zero Value"
PanicIndex == "reflect: slice index out of range"
PanicNilConversion == "interface conversion: interface is nil, not query.Encoder"
PanicNilReceiver == "value method called using nil pointer"
ErrEncoding == "encoding error"
ErrUnsupportedKind == "query: Values() unsupported kind input"

(***************************************************************************)
(* Query strings (net/url): a Go string that the code scans byte by byte   *)
(* is a TLA+ string read with Len and SubSeq.                              *)
(***************************************************************************)
\* the printable ASCII characters, the one of code c at index c - 31 (a tab
\* stands at index 65 for the grave accent, which a TLA+ string cannot hold)
Ascii ==
    " !\"#$%&'()*+,-./0123456789:;<=>?@ABCDEFGHIJKLMNOPQRSTUVWXYZ[\\]^_\tabcdefghijklmnopqrstuvwxyz{|}~"

At(s, i) == SubSeq(s, i, i)

Code(c) == 31 + (CHOOSE i \in 1..Len(Ascii) : At(Ascii, i) = c)

\* the index of c in s, 0 when s does not hold c (strings.IndexByte + 1)
RECURSIVE IndexOf(_, _, _)
IndexOf(s, c, i) ==
    IF i > Len(s) THEN 0 ELSE IF At(s, i) = c THEN i ELSE IndexOf(s, c, i + 1)

\* strings.TrimLeft(s, cutset) for a cutset of one character
RECURSIVE TrimLeft(_, _)
TrimLeft(s, c) ==
    IF Len(s) > 0 /\ At(s, 1) = c THEN TrimLeft(SubSeq(s, 2, Len(s)), c) ELSE s

\* url.QueryEscape: letters, digits and -_.~ are kept, a space becomes "+",
\* every other byte becomes %XX
RECURSIVE QueryEscape(_)
QueryEscape(s) ==
    IF s = "" THEN ""
    ELSE LET c == At(s, 1)
             hex == "0123456789ABCDEF"
             out == IF c = " " THEN "+"
                    ELSE IF IndexOf("ABCDEFGHIJKLMNOPQRSTUVWXYZabcdefghijklmnopqrstuvwxyz0123456789-_.~", c, 1) > 0
                    THEN c
                    ELSE "%" \o At(hex, (Code(c) \div 16) + 1) \o At(hex, (Code(c) % 16) + 1)
         IN  out \o QueryEscape(SubSeq(s, 2, Len(s)))

ErrEscape == "invalid URL escape"
ErrSemicolon == "invalid semicolon separator in query"

\* url.QueryUnescape: s is the text, err the error ("" is nil)
RECURSIVE QueryUnescape(_)
QueryUnescape(s) ==
    IF s = "" THEN [s |-> "", err |-> ""]
    ELSE LET c == At(s, 1)
             hex == "0123456789ABCDEF0123456789abcdef"
             h1 == IF Len(s) >= 3 THEN IndexOf(hex, At(s, 2), 1) ELSE 0
             h2 == IF Len(s) >= 3 THEN IndexOf(hex, At(s, 3), 1) ELSE 0
             code == ((h1 - 1) % 16) * 16 + ((h2 - 1) % 16)
             rest == QueryUnescape(SubSeq(s, IF c = "%" THEN 4 ELSE 2, Len(s)))
         IN  IF c = "%" /\ (h1 = 0 \/ h2 = 0) THEN [s |-> "", err |-> ErrEscape]
             ELSE IF rest.err # "" THEN rest
             ELSE IF c = "%"
             THEN [s |-> (IF code \in 32..126 THEN At(Ascii, code - 31) ELSE "?") \o rest.s,
                   err |-> ""]
             ELSE [s |-> (IF c = "+" THEN " " ELSE c) \o rest.s, err |-> ""]

\* strings.Cut(s, sep) for a separator of one character
Cut(s, sep) ==
    LET i == IndexOf(s, sep, 1)
    IN  IF i = 0 THEN [before |-> s, after |-> "", found |-> FALSE]
        ELSE [before |-> SubSeq(s, 1, i - 1), after |-> SubSeq(s, i + 1, Len(s)),
              found |-> TRUE]

\* url.ParseQuery: the pairs of every valid setting, and the first error
RECURSIVE parseQuery(_, _, _)
parseQuery(m, err, query) ==
    IF query = "" THEN [values |-> m, err |-> err]
    ELSE LET seg == Cut(query, "&")
             kv == Cut(seg.before, "=")
             k == QueryUnescape(kv.before)
             v == QueryUnescape(kv.after)
             firstErr(e) == IF err = "" THEN e ELSE err
         IN  IF IndexOf(seg.before, ";", 1) > 0
             THEN parseQuery(m, firstErr(ErrSemicolon), seg.after)
             ELSE IF seg.before = "" THEN parseQuery(m, err, seg.after)
             ELSE IF k.err # "" THEN parseQuery(m, firstErr(k.err), seg.after)
             ELSE IF v.err # "" THEN parseQuery(m, firstErr(v.err), seg.after)
             ELSE parseQuery(ValuesAdd(m, k.s, v.s), err, seg.after)

\* the order of strings by their bytes
RECURSIVE StringLess(_, _)
StringLess(a, b) ==
    IF b = "" THEN FALSE
    ELSE IF a = "" THEN TRUE
    ELSE IF At(a, 1) = At(b, 1) THEN StringLess(SubSeq(a, 2, Len(a)), SubSeq(b, 2, Len(b)))
    ELSE Code(At(a, 1)) < Code(At(b, 1))

\* url.Values.Encode: "k=v" for every value of every key, the keys sorted,
\* joined with "&"
RECURSIVE Encode(_)
Encode(m) ==
    IF DOMAIN m = {} THEN ""
    ELSE LET k == CHOOSE x \in DOMAIN m : \A y \in DOMAIN m \ {x} : StringLess(x, y)
             rest == Encode([y \in DOMAIN m \ {k} |-> m[y]])
             here == JoinStrings([i \in 1..Len(m[k]) |->
                                     QueryEscape(k) \o "=" \o QueryEscape(m[k][i])], "&")
         IN  IF here = "" THEN rest
             ELSE IF rest = "" THEN here
             ELSE here \o "&" \o rest

\* parseQueryString: s is the text of the root string or []byte
parseQueryString(R, queryString) ==
    LET p == parseQuery(NoValues, "", TrimLeft(queryString, "?"))
    IN  [R EXCEPT !.values = p.values, !.err = p.err]

(***************************************************************************)
(* reflect values.                                                         *)
(***************************************************************************)
MkValue(kind, typ, b, n, s, elem, xs, kv, fs) ==
    [kind |-> kind, typ |-> typ, b |-> b, n |-> n, s |-> s,
     elem |-> elem, xs |-> xs, kv |-> kv, fs |-> fs]

Invalid == MkValue("Invalid", <<>>, FALSE, 0, "", <<>>, <<>>, <<>>, <<>>)

StringV(s) == MkValue("String", <<"string">>, FALSE, 0, s, <<>>, <<>>, <<>>, <<>>)
IntV(n) == MkValue("Int", <<"int">>, FALSE, n, "", <<>>, <<>>, <<>>, <<>>)
BoolV(b) == MkValue("Bool", <<"bool">>, b, 0, "", <<>>, <<>>, <<>>, <<>>)
NamedIntV(name, n) == MkValue("Int", <<name>>, FALSE, n, "", <<>>, <<>>, <<>>, <<>>)

timeType == <<"time.Time">>
\* a time.Time: b says that it is the zero time, n is its Unix time in seconds
TimeV(zero, sec) == MkValue("Struct", timeType, zero, sec, "", <<>>, <<>>, <<>>, <<>>)

PtrTo(v) == MkValue("Ptr", <<"*">> \o v.typ, FALSE, 0, "", <<v>>, <<>>, <<>>, <<>>)
NilPtr(typ) == MkValue("Ptr", <<"*">> \o typ, FALSE, 0, "", <<>>, <<>>, <<>>, <<>>)
\* a value of interface type ityp holding v; NilInterface holds nothing
InterfaceOf(ityp, v) == MkValue("Interface", <<ityp>>, FALSE, 0, "", <<v>>, <<>>, <<>>, <<>>)
NilInterface(ityp) == MkValue("Interface", <<ityp>>, FALSE, 0, "", <<>>, <<>>, <<>>, <<>>)
AnyOf(v) == InterfaceOf("interface{}", v)
NilAny == NilInterface("interface{}")

SliceV(etyp, xs) == MkValue("Slice", <<"[]">> \o etyp, FALSE, 0, "", <<>>, xs, <<>>, <<>>)
ArrayV(etyp, xs) == MkValue("Array", <<"[n]">> \o etyp, FALSE, 0, "", <<>>, xs, <<>>, <<>>)
NamedSliceV(name, xs) == MkValue("Slice", <<name>>, FALSE, 0, "", <<>>, xs, <<>>, <<>>)
\* kv: a sequence of entries [k |-> key value, v |-> value], ascending by key
MapV(kv) == MkValue("Map", <<"map">>, FALSE, 0, "", <<>>, <<>>, kv, <<>>)
Entry(k, v) == [k |-> k, v |-> v]
\* fs: the fields in declaration order
StructV(fs) == MkValue("Struct", <<"struct">>, FALSE, 0, "", <<>>, <<>>, <<>>, fs)

\* reflect.StructField with the tags the encoder reads, and the field's value
Field(name, query, v) ==
    [Name |-> name, PkgPath |-> "", Anonymous |-> FALSE, query |-> query,
     url |-> <<>>, layout |-> "", del |-> "", v |-> v]

IsValid(v) == v.kind # "Invalid"

\* Value.Elem of a pointer or an interface: the zero Value when it is nil
Elem(v) == IF v.elem = <<>> THEN Invalid ELSE v.elem[1]

IsNil(v) == v.elem = <<>>

\* reflect.Indirect
Indirect(v) == IF v.kind = "Ptr" THEN Elem(v) ELSE v

\* Value.Len of an array, map, slice or string; the length of a string is
\* only compared with 0
ValueLen(v) ==
    CASE v.kind = "Map" -> Len(v.kv)
      [] v.kind = "String" -> IF v.s = "" THEN 0 ELSE 1
      [] OTHER -> Len(v.xs)

\* Type.Elem of a pointer type
TypeElem(typ) == Tail(typ)

\* the zero value of the type typ, for the types the model makes pointers to;
\* the struct type of the model's nil struct pointers has one string field X
Zero(typ) ==
    CASE typ = <<"customEncodedStrings">> -> NamedSliceV("customEncodedStrings", <<>>)
      [] typ = <<"string">> -> StringV("")
      [] typ = timeType -> TimeV(TRUE, 0)
      [] typ = <<"[]", "string">> -> SliceV(<<"string">>, <<>>)
      [] typ = <<"struct">> -> StructV(<<Field("X", <<"x">>, StringV(""))>>)
      [] OTHER -> MkValue("Int", typ, FALSE, 0, "", <<>>, <<>>, <<>>, <<>>)

New(typ) == PtrTo(Zero(typ))

\* a loop that replaces a nil pointer by the zero value of its pointee
RECURSIVE derefPointersToZero(_)
derefPointersToZero(sv) ==
    IF sv.kind # "Ptr" THEN sv
    ELSE IF IsNil(sv) THEN Zero(TypeElem(sv.typ))
    ELSE derefPointersToZero(Elem(sv))

\* the loop "for sv.Kind() == reflect.Ptr { if sv.IsNil() { break }; sv = sv.Elem() }"
RECURSIVE derefPointers(_)
derefPointers(sv) ==
    IF sv.kind = "Ptr" /\ ~IsNil(sv) THEN derefPointers(Elem(sv)) ELSE sv

\* "if sv.Kind() == reflect.Interface { sv = sv.Elem() }" followed by that loop
dereference(sv) ==
    derefPointers(IF sv.kind = "Interface" THEN Elem(sv) ELSE sv)

(***************************************************************************)
(* Tags (encode.go, parseTag and tagOptions).                              *)
(***************************************************************************)
\* the loop over tags = {"query", "url"}: the first tag that is not empty
fieldTag(sf) == IF Concat(sf.query) # "" THEN sf.query ELSE sf.url

RECURSIVE ConcatEach(_)
ConcatEach(segs) ==
    IF segs = <<>> THEN <<>> ELSE <<Concat(Head(segs))>> \o ConcatEach(Tail(segs))

\* the loop over the options of a tag: kvs[keys[0]] = strings.Join(keys[1:], ":")
RECURSIVE tagKvs(_, _)
tagKvs(opts, kvs) ==
    IF opts = <<>> THEN kvs
    ELSE LET v == Head(opts)
             keys == SplitLexemes(v, ":", <<>>)
         IN  IF Concat(v) = "" THEN tagKvs(Tail(opts), kvs)
             ELSE tagKvs(Tail(opts),
                         (Concat(keys[1]) :> JoinStrings(ConcatEach(Tail(keys)), ":")) @@ kvs)

NilOpts == [nil |-> TRUE, kvs |-> NoValues, layout |-> "", del |-> ""]

\* the name of the tag and its options; layout and del stand for opts.sf.Tag
parseTag(tag, sf) ==
    LET s == SplitLexemes(tag, ",", <<>>)
    IN  [name |-> Concat(s[1]),
         opts |-> [nil |-> FALSE, kvs |-> tagKvs(Tail(s), NoValues),
                   layout |-> sf.layout, del |-> sf.del]]

contains(o, option) == ~o.nil /\ option \in DOMAIN o.kvs

(***************************************************************************)
(* isEmptyValue.                                                           *)
(***************************************************************************)
isEmptyValue(v) ==
    CASE v.kind \in {"Array", "Map", "Slice", "String"} -> ValueLen(v) = 0
      [] v.kind = "Bool" -> ~v.b
      [] v.kind \in {"Int", "Uint", "Float"} -> v.n = 0
      [] v.kind \in {"Interface", "Ptr"} -> IsNil(v)
      [] v.kind = "Invalid" -> TRUE
      [] OTHER -> IF v.typ = timeType THEN v.b ELSE FALSE

(***************************************************************************)
(* valueString, with fmt.Sprint and the time formats it uses.              *)
(***************************************************************************)
RFC3339 == "2006-01-02T15:04:05Z07:00"

\* Time.Format: the text of the instant in the layout; distinct instants and
\* distinct layouts give distinct texts
Format(t, layout) == layout \o "@" \o Itoa(t.n)

Chr(c) == IF c \in 32..126 THEN At(Ascii, c - 31) ELSE "?"

\* string(b) for a []byte
RECURSIVE BytesToString(_)
BytesToString(xs) ==
    IF xs = <<>> THEN "" ELSE Chr(Head(xs).n) \o BytesToString(Tail(xs))

bytesType == <<"[]", "uint8">>

\* []byte(s)
BytesV(s) == SliceV(<<"uint8">>, [i \in 1..Len(s) |-> NamedIntV("uint8", Code(At(s, i)))])

\* a url.Values holding the multimap m, its entries ascending by key, and the
\* multimap that such a value holds
RECURSIVE UrlValuesEntries(_)
UrlValuesEntries(m) ==
    IF DOMAIN m = {} THEN <<>>
    ELSE LET k == CHOOSE x \in DOMAIN m : \A y \in DOMAIN m \ {x} : StringLess(x, y)
         IN  <<Entry(StringV(k), SliceV(<<"string">>, [i \in 1..Len(m[k]) |-> StringV(m[k][i])]))>>
             \o UrlValuesEntries([y \in DOMAIN m \ {k} |-> m[y]])

urlValuesType == <<"url.Values">>

UrlValuesV(m) ==
    MkValue("Map", urlValuesType, FALSE, 0, "", <<>>, <<>>, UrlValuesEntries(m), <<>>)

MultimapOf(val) ==
    [k \in {val.kv[i].k.s : i \in 1..Len(val.kv)} |->
        LET e == CHOOSE i \in 1..Len(val.kv) : val.kv[i].k.s = k
        IN  [j \in 1..Len(val.kv[e].v.xs) |-> val.kv[e].v.xs[j].s]]

\* the text fmt prints for a pointer inside a composite: an address
AddressText == "0xc000012345"

RECURSIVE Sprint(_)
RECURSIVE SprintEach(_)
RECURSIVE SprintEntries(_)
RECURSIVE SprintFields(_)
SprintEach(xs) ==
    IF xs = <<>> THEN <<>> ELSE <<Sprint(Head(xs))>> \o SprintEach(Tail(xs))

SprintEntries(kv) ==
    IF kv = <<>> THEN <<>>
    ELSE <<Sprint(Head(kv).k) \o ":" \o Sprint(Head(kv).v)>> \o SprintEntries(Tail(kv))

SprintFields(fs) ==
    IF fs = <<>> THEN <<>> ELSE <<Sprint(Head(fs).v)>> \o SprintFields(Tail(fs))

\* fmt.Sprint of the value an interface{} holds
Sprint(v) ==
    CASE v.kind = "String" -> v.s
      [] v.kind \in {"Int", "Uint"} -> Itoa(v.n)
      [] v.kind = "Bool" -> IF v.b THEN "true" ELSE "false"
      [] v.kind = "Invalid" -> "<nil>"
      [] v.kind = "Interface" -> IF IsNil(v) THEN "<nil>" ELSE Sprint(Elem(v))
      [] v.kind = "Ptr" -> IF IsNil(v) THEN "<nil>" ELSE AddressText
      [] v.kind \in {"Slice", "Array"} -> "[" \o JoinStrings(SprintEach(v.xs), " ") \o "]"
      [] v.kind = "Map" -> "map[" \o JoinStrings(SprintEntries(v.kv), " ") \o "]"
      [] OTHER -> IF v.typ = timeType THEN Format(v, "2006-01-02 15:04:05 -0700 MST")
                  ELSE "{" \o JoinStrings(SprintFields(v.fs), " ") \o "}"

\* the time branch of valueString, for a time that is not zero
\* a rendering that looks for the layout tag before the flags
timeStringLayoutFirst(t, opts) ==
    IF ~opts.nil /\ opts.layout # "" THEN Format(t, opts.layout)
    ELSE IF ~opts.nil /\ contains(opts, "unix") THEN Itoa(t.n)
    ELSE IF ~opts.nil /\ contains(opts, "unixmilli") THEN Itoa(t.n * 1000)
    ELSE IF ~opts.nil /\ contains(opts, "unixnano") THEN Itoa(t.n * 1000000000)
    ELSE Format(t, RFC3339)

timeString(t, opts) ==
    IF ~opts.nil /\ contains(opts, "unix") THEN Itoa(t.n)
    ELSE IF ~opts.nil /\ contains(opts, "unixmilli") THEN Itoa(t.n * 1000)
    ELSE IF ~opts.nil /\ contains(opts, "unixnano") THEN Itoa(t.n * 1000000000)
    ELSE IF ~opts.nil /\ opts.layout # "" THEN Format(t, opts.layout)
    ELSE Format(t, RFC3339)

\* the end of valueString for dyn, the value that v.Interface() returns
renderInterface(dyn) ==
    IF IsValid(dyn) /\ dyn.typ = bytesType THEN BytesToString(dyn.xs) ELSE Sprint(dyn)

\* valueString from "if v.Type() == timeType" on, for the value v that the
\* interface unwrapping and the pointer loop have reached
renderValue(v, opts) ==
    IF ~IsValid(v) THEN [s |-> "", panic |-> PanicZeroType]
    ELSE IF v.typ = timeType
         THEN [s |-> IF v.b THEN "" ELSE timeString(v, opts), panic |-> ""]
    ELSE IF ~opts.nil /\ v.kind = "Bool" /\ contains(opts, "int")
         THEN [s |-> IF v.b THEN "1" ELSE "0", panic |-> ""]
    ELSE [s |-> renderInterface(IF v.kind = "Interface" THEN Elem(v) ELSE v), panic |-> ""]

\* the value that valueString's pointer loop ends with, or the nil pointer
\* that makes it return ""
renderPointee(v, opts) ==
    IF v.kind = "Ptr" THEN [s |-> "", panic |-> ""] ELSE renderValue(v, opts)

\* valueString: s is the string returned, panic the panic raised instead
valueString(v0, opts) ==
    renderPointee(derefPointers(IF v0.kind = "Interface" THEN Elem(v0) ELSE v0), opts)

\* values.Add(k, s) for the string s that valueString returned
AddString(R, k, vs) ==
    IF vs.panic # "" THEN Panic(R, vs.panic) ELSE Add(R, k, vs.s)

\* values.Add(k, valueString(v, opts))
AddRendered(R, k, v, opts) == AddString(R, k, valueString(v, opts))

(***************************************************************************)
(* The Encoder implementations of the package's tests.                     *)
(***************************************************************************)
\* Type.Implements(encoderType)
Implements(typ) ==
    typ \in {<<"customEncodedStrings">>, <<"*", "customEncodedStrings">>,
             <<"customEncodedInt">>, <<"*", "customEncodedInt">>,
             <<"*", "customEncodedIntPtr">>, <<"Encoder">>}

\* customEncodedStrings.EncodeValues
RECURSIVE encodeStrings(_, _, _, _)
encodeStrings(R, key, xs, i) ==
    IF i >= Len(xs) THEN R
    ELSE IF xs[i + 1].s = "err" THEN Error(R, ErrEncoding)
    ELSE encodeStrings(Set(R, key \o "." \o Itoa(i), xs[i + 1].s), key, xs, i + 1)

\* customEncodedInt.EncodeValues
encodeInt(R, key, m) == Set(R, key, "_" \o Itoa(m.n))

\* (*customEncodedIntPtr).EncodeValues
encodeIntPtr(R, key, m) ==
    IF IsNil(m) THEN Set(R, key, "undefined") ELSE Set(R, key, "_" \o Itoa(Elem(m).n))

\* sv.Interface().(Encoder) and m.EncodeValues(name, &values)
EncodeValues(R0, sv, name) ==
    LET m == IF sv.kind = "Interface" THEN Elem(sv) ELSE sv
        R == [R0 EXCEPT !.calls = Append(@, <<name, m>>)]
    IN  IF ~IsValid(m) THEN Panic(R0, PanicNilConversion)
        ELSE IF m.typ = <<"*", "customEncodedIntPtr">> THEN encodeIntPtr(R, name, m)
        ELSE IF m.kind = "Ptr" /\ IsNil(m) THEN Panic(R0, PanicNilReceiver)
        ELSE LET recv == Indirect(m)
             IN  IF recv.typ = <<"customEncodedStrings">>
                 THEN encodeStrings(R, name, recv.xs, 0)
                 ELSE encodeInt(R, name, recv)

(***************************************************************************)
(* reflectStruct, handleSliceValue, reflectSlice, reflectMap.              *)
(***************************************************************************)
\* "if scope != "" { name = scope + "[" + name + "]" }"
scopedName(scope, name) ==
    IF scope # "" THEN scope \o "[" \o name \o "]" ELSE name

\* an omitempty that looks through pointers and interfaces
omitFieldAfterDeref(opts, sv) == contains(opts, "omitempty") /\ isEmptyValue(dereference(sv))

\* a skip of every empty field, whatever its tag
omitFieldAlways(opts, sv) == isEmptyValue(sv)

\* "if opts.contains("omitempty") && isEmptyValue(sv) { continue }"
omitField(opts, sv) == contains(opts, "omitempty") /\ isEmptyValue(sv)

\* an inline option honoured next to an explicit name
nextScopeInlineNamed(name, fieldName, opts, scope, count) ==
    IF contains(opts, "inline")
    THEN IF count > 0 THEN scope ELSE ""
    ELSE name

\* the scope that the children of a map or struct field are traversed with
nextScope(name, fieldName, opts, scope, count) ==
    IF fieldName = "" /\ contains(opts, "inline")
    THEN IF count > 0 THEN scope ELSE ""
    ELSE name

\* the delimiter and the key of a slice field that is not empty
\* a join that looks for the brackets option first
sliceJoinBracketsFirst(opts, name) ==
    IF contains(opts, "brackets") THEN [del |-> "", name |-> name \o "[]"]
    ELSE IF contains(opts, "comma") THEN [del |-> ",", name |-> name]
    ELSE IF contains(opts, "space") THEN [del |-> " ", name |-> name]
    ELSE IF contains(opts, "semicolon") THEN [del |-> ";", name |-> name]
    ELSE [del |-> opts.del, name |-> name]

sliceJoin(opts, name) ==
    IF contains(opts, "comma") THEN [del |-> ",", name |-> name]
    ELSE IF contains(opts, "space") THEN [del |-> " ", name |-> name]
    ELSE IF contains(opts, "semicolon") THEN [del |-> ";", name |-> name]
    ELSE IF contains(opts, "brackets") THEN [del |-> "", name |-> name \o "[]"]
    ELSE [del |-> opts.del, name |-> name]

\* one key for every element, whatever the options
elementKeyPlain(opts, name, j) == name

\* the key of element j of a slice field that is not joined
elementKey(opts, name, j) ==
    IF contains(opts, "numbered") THEN name \o Itoa(j)
    ELSE IF contains(opts, "idx") THEN name \o "[" \o Itoa(j) \o "]"
    ELSE name

\* the package variable defaultScopeJoiner applied: "brackets" is the function
\* it starts as, "dot" a function set by SetScopeJoiner
joinScope(scope, name) ==
    IF defaultScopeJoiner = "dot" THEN scope \o "." \o name
    ELSE scope \o "[" \o name \o "]"

\* the key of a map entry
mapKey(scope, key) == IF scope # "" THEN joinScope(scope, key) ELSE key

\* the indexes of a map's entries in the order range visits them
mapOrder(R, val) == SelectSeq(R.iter, LAMBDA i : i <= Len(val.kv))

\* the elements of a joined slice field rendered: parts, or the panic raised
RECURSIVE renderElements(_, _)
renderElements(xs, opts) ==
    IF xs = <<>> THEN [parts |-> <<>>, panic |-> ""]
    ELSE LET vs == valueString(Head(xs), opts)
             rest == renderElements(Tail(xs), opts)
         IN  IF vs.panic # "" THEN [parts |-> <<>>, panic |-> vs.panic]
             ELSE [parts |-> <<vs.s>> \o rest.parts, panic |-> rest.panic]

RECURSIVE reflectStruct(_, _, _, _)
RECURSIVE structFields(_, _, _, _, _, _)
RECURSIVE structEmbedded(_, _, _, _, _)
RECURSIVE fieldValue(_, _, _, _, _, _, _, _)
RECURSIVE sliceElements(_, _, _, _, _, _)
RECURSIVE handleSliceValue(_, _, _, _, _)
RECURSIVE reflectSlice(_, _, _, _, _)
RECURSIVE sliceLoop(_, _, _, _, _, _)
RECURSIVE reflectMap(_, _, _, _, _)
RECURSIVE mapEntries(_, _, _, _, _, _)
RECURSIVE reflectKind(_, _, _, _, _)

\* the loop "for j := 0; j < l; j++" of a slice field that is not joined
sliceElements(R, sv, name, count, opts, j) ==
    IF j >= Len(sv.xs) THEN R
    ELSE LET k == elementKey(opts, name, j)
             h == handleSliceValue(R, sv.xs[j + 1], k, count, opts)
             r2 == IF h.already THEN h.r ELSE AddRendered(h.r, k, sv.xs[j + 1], opts)
         IN  IF Failed(h.r) THEN h.r
             ELSE IF Failed(r2) THEN r2
             ELSE sliceElements(r2, sv, name, count, opts, j + 1)

\* one field that is neither skipped nor custom-encoded: from "recursively
\* dereference pointers" to the end of the switch
fieldValue(R, sf, sv0, name, fieldName, opts, scope, count) ==
    LET sv == dereference(sv0)
    IN  IF ~IsValid(sv) THEN Panic(R, PanicZeroType)
        ELSE IF sv.typ = timeType THEN AddRendered(R, name, sv, opts)
        ELSE IF sv.kind \in {"Slice", "Array"}
        THEN IF Len(sv.xs) = 0 THEN R
             ELSE LET jn == sliceJoin(opts, name)
                      parts == renderElements(sv.xs, opts)
                  IN  IF jn.del # ""
                      THEN IF parts.panic # "" THEN Panic(R, parts.panic)
                           ELSE Add(R, jn.name, JoinStrings(parts.parts, jn.del))
                      ELSE sliceElements(R, sv, jn.name, count, opts, 0)
        ELSE IF sv.kind \in {"Map", "Struct"}
        THEN reflectKind(R, sv, nextScope(name, fieldName, opts, scope, count), count + 1, opts)
        ELSE AddRendered(R, name, sv, opts)

\* a skip of every field whose name token is "-"
ignoredTagByName(tag) == tag # <<>> /\ Head(tag) = "-"

\* "if tag == "-" { continue }"
ignoredTag(tag) == Concat(tag) = "-"

\* the loop over the fields of val, from field i on: the state reached and
\* the embedded structs saved for later
structFields(R, val, scope, count, i, embedded) ==
    IF i > Len(val.fs) THEN [r |-> R, embedded |-> embedded]
    ELSE
    LET sf == val.fs[i]
        tag == fieldTag(sf)
        sv == sf.v
        pt == parseTag(tag, sf)
        fieldName == pt.name
        opts == pt.opts
        isEmbedded == fieldName = "" /\ sf.Anonymous /\ Indirect(sv).kind = "Struct"
        name == scopedName(scope, IF fieldName = "" THEN sf.Name ELSE fieldName)
        enc == IF ~IsValid(Indirect(sv)) /\ Implements(TypeElem(sv.typ))
               THEN New(TypeElem(sv.typ)) ELSE sv
        r2 == IF Implements(sv.typ) THEN EncodeValues(R, enc, name)
              ELSE fieldValue(R, sf, sv, name, fieldName, opts, scope, count)
    IN  IF sf.PkgPath # "" /\ ~sf.Anonymous
        THEN structFields(R, val, scope, count, i + 1, embedded)
        ELSE IF ignoredTag(tag)
        THEN structFields(R, val, scope, count, i + 1, embedded)
        ELSE IF isEmbedded
        THEN structFields(R, val, scope, count, i + 1, Append(embedded, Indirect(sv)))
        ELSE IF omitField(opts, sv)
        THEN structFields(R, val, scope, count, i + 1, embedded)
        ELSE IF Failed(r2) THEN [r |-> r2, embedded |-> embedded]
        ELSE structFields(r2, val, scope, count, i + 1, embedded)

\* the loop "for _, f := range embedded"
structEmbedded(R, embedded, scope, count, i) ==
    IF i > Len(embedded) THEN R
    ELSE LET r2 == reflectStruct(R, embedded[i], scope, count)
         IN  IF Failed(r2) THEN r2 ELSE structEmbedded(r2, embedded, scope, count, i + 1)

\* a traversal that follows the embedded structs before the direct fields
reflectStructEmbeddedFirst(R, val, scope, count) ==
    LET probe == structFields(R, val, scope, count, 1, <<>>)
        first == structEmbedded(R, probe.embedded, scope, count, 1)
    IN  IF Failed(first) THEN first
        ELSE structFields(first, val, scope, count, 1, <<>>).r

reflectStruct(R, val, scope, count) ==
    LET direct == structFields(R, val, scope, count, 1, <<>>)
    IN  IF Failed(direct.r) THEN direct.r
        ELSE structEmbedded(direct.r, direct.embedded, scope, count, 1)

\* r: the state reached; already: the first result of handleSliceValue
handleSliceValue(R, sv0, scope, count, opts) ==
    LET sv == dereference(sv0)
    IN  IF isEmptyValue(sv0) THEN [r |-> R, already |-> TRUE]
        ELSE IF sv.kind \in {"Map", "Slice", "Array"} \/ (sv.kind = "Struct" /\ sv.typ # timeType)
        THEN LET r2 == reflectKind(R, sv, scope, count + 1, opts)
             IN  [r |-> r2, already |-> ~Failed(r2)]
        ELSE [r |-> R, already |-> FALSE]

\* a pair mode that ignores the scope: element i is the key of element i + 1
pairStepNoScope(R, val, scope, i) ==
    LET l == Len(val.xs)
        key == valueString(val.xs[i + 1], NilOpts)
    IN  IF i + 1 > l - 1 THEN [r |-> R, next |-> i + 1]
        ELSE IF key.panic # "" THEN [r |-> Panic(R, key.panic), next |-> i + 2]
        ELSE [r |-> AddRendered(R, key.s, val.xs[i + 2], NilOpts), next |-> i + 2]

\* what reflectSlice does with element i (from 0) once handleSliceValue has
\* left it alone: the state reached and the index the loop goes on with
pairStep(R, val, scope, i) ==
    LET l == Len(val.xs)
        endIndex == i + 1
        sv == val.xs[i + 1]
        r1 == AddRendered(R, scope, sv, NilOpts)
        key == valueString(sv, NilOpts)
    IN  IF endIndex > l THEN [r |-> R, next |-> i + 1]
        ELSE IF scope # ""
        THEN IF Failed(r1) THEN [r |-> r1, next |-> i + 2]
             ELSE IF endIndex >= l THEN [r |-> Panic(r1, PanicIndex), next |-> i + 2]
             ELSE [r |-> AddRendered(r1, scope, val.xs[endIndex + 1], NilOpts),
                   next |-> i + 2]
        ELSE IF endIndex > l - 1 THEN [r |-> R, next |-> i + 1]
        ELSE IF key.panic # "" THEN [r |-> Panic(R, key.panic), next |-> i + 2]
        ELSE [r |-> AddRendered(R, key.s, val.xs[endIndex + 1], NilOpts), next |-> i + 2]

\* the loop "for i := 0; i < l; i++" of reflectSlice
sliceLoop(R, val, scope, count, opts, i) ==
    IF i >= Len(val.xs) THEN R
    ELSE LET h == handleSliceValue(R, val.xs[i + 1], scope, count, opts)
             p == pairStep(h.r, val, scope, i)
         IN  IF Failed(h.r) THEN h.r
             ELSE IF h.already THEN sliceLoop(h.r, val, scope, count, opts, i + 1)
             ELSE IF Failed(p.r) THEN p.r
             ELSE sliceLoop(p.r, val, scope, count, opts, p.next)

reflectSlice(R, val, scope, count, opts) ==
    IF Len(val.xs) = 0 THEN R ELSE sliceLoop(R, val, scope, count, opts, 0)

\* the loop "for iter.Next()" of reflectMap over the entries order[i..]
mapEntries(R, val, scope, count, opts, order) ==
    IF order = <<>> THEN R
    ELSE
    LET e == val.kv[Head(order)]
        ks == valueString(e.k, NilOpts)
        key == mapKey(scope, ks.s)
        sv == dereference(e.v)
        r2 == IF sv.typ = timeType THEN AddRendered(R, key, sv, opts)
              ELSE IF sv.kind \in {"Map", "Slice", "Array", "Struct"}
              THEN reflectKind(R, sv, key, count + 1, opts)
              ELSE AddRendered(R, key, sv, opts)
    IN  IF isEmptyValue(e.v) THEN mapEntries(R, val, scope, count, opts, Tail(order))
        ELSE IF ks.panic # "" THEN Panic(R, ks.panic)
        ELSE IF Failed(r2) THEN r2
        ELSE mapEntries(r2, val, scope, count, opts, Tail(order))

reflectMap(R, val, scope, count, opts) ==
    mapEntries(R, val, scope, count, opts, mapOrder(R, val))

\* the switch on the kind of a value that is a map, a slice, an array or a
\* struct, as reflectValue, reflectStruct, handleSliceValue and reflectMap
\* each have it: reflectStruct takes no options
reflectKind(R, val, scope, count, opts) ==
    IF val.kind = "Map" THEN reflectMap(R, val, scope, count, opts)
    ELSE IF val.kind \in {"Slice", "Array"} THEN reflectSlice(R, val, scope, count, opts)
    ELSE reflectStruct(R, val, scope, count)

(***************************************************************************)
(* Values and reflectValue.                                                *)
(***************************************************************************)
\* a reflectValue that takes a value of any other kind for nothing to encode
reflectValueAnyKind(R, val) ==
    IF val.kind \in {"Map", "Slice", "Array", "Struct"}
    THEN reflectKind(R, val, "", 0, NilOpts)
    ELSE R

reflectValue(R, val) ==
    IF val.kind \in {"Map", "Slice", "Array", "Struct"}
    THEN reflectKind(R, val, "", 0, NilOpts)
    ELSE Error(R, ErrUnsupportedKind)

\* the loop "for val.Kind() == reflect.Ptr" of Values: the value reached, or
\* the nil pointer that ends the call
\* Values without the cases of the type switch
ValuesByKind(v, iter) ==
    LET val == derefPointers(v)
    IN  IF v.kind = "Interface" /\ IsNil(v) THEN NewState(iter)
        ELSE IF val.kind = "Ptr" THEN NewState(iter)
        ELSE reflectValue(NewState(iter), val)

Values(v, iter) ==
    LET val == derefPointers(v)
        \* val.Interface(): what an interface value holds, any other value itself
        str == IF val.kind = "Interface" /\ ~IsNil(val) THEN Elem(val) ELSE val
        R == NewState(iter)
    IN  IF v.kind = "Interface" /\ IsNil(v) THEN R
        ELSE IF val.kind = "Ptr" THEN R
        ELSE IF str.typ = <<"string">> THEN parseQueryString(R, str.s)
        ELSE IF str.typ = bytesType THEN parseQueryString(R, BytesToString(str.xs))
        ELSE IF str.typ = urlValuesType
        THEN [R EXCEPT !.values = MultimapOf(str), !.shared = TRUE]
        ELSE reflectValue(R, val)

(***************************************************************************)
(* The inputs the model calls Values with.                                 *)
(***************************************************************************)
Opt(o) == <<",", o>>
Tagged(name, query, del, v) == [Field(name, query, v) EXCEPT !.del = del]
Embedded(name, v) == [Field(name, <<>>, v) EXCEPT !.Anonymous = TRUE]

\* all sequences over S of length 0..n
RECURSIVE SeqsUpTo(_, _)
SeqsUpTo(S, n) ==
    IF n = 0 THEN {<<>>}
    ELSE LET shorter == SeqsUpTo(S, n - 1)
         IN  shorter \cup {Append(q, x) : q \in {r \in shorter : Len(r) = n - 1}, x \in S}

customEncodedStrings(strs) ==
    NamedSliceV("customEncodedStrings", [i \in 1..Len(strs) |-> StringV(strs[i])])

subStruct == Zero(<<"struct">>)

Scalars ==
    {StringV(""), StringV("a"), IntV(0), IntV(1), BoolV(FALSE), BoolV(TRUE),
     TimeV(TRUE, 0), TimeV(FALSE, 1)}

Containers ==
    {SliceV(<<"string">>, <<>>), SliceV(<<"string">>, <<StringV("a")>>),
     ArrayV(<<"string">>, <<>>), MapV(<<>>), MapV(<<Entry(StringV("k"), StringV("a"))>>),
     subStruct}

Pointers ==
    {NilPtr(<<"string">>), NilPtr(<<"int">>), NilPtr(<<"struct">>),
     NilPtr(<<"[]", "string">>), NilPtr(timeType), PtrTo(NilPtr(<<"string">>)),
     PtrTo(PtrTo(StringV("a")))}
    \cup {PtrTo(v) : v \in Scalars \cup Containers}

Interfaces ==
    {NilAny, AnyOf(StringV("a")), AnyOf(IntV(0)), AnyOf(NilPtr(<<"int">>)),
     PtrTo(NilAny), AnyOf(subStruct)}

Encoders ==
    {NamedIntV("customEncodedInt", 0), NamedIntV("customEncodedInt", 1),
     NilPtr(<<"customEncodedInt">>), PtrTo(NamedIntV("customEncodedInt", 0)),
     NamedIntV("customEncodedIntPtr", 0), NilPtr(<<"customEncodedIntPtr">>),
     PtrTo(NamedIntV("customEncodedIntPtr", 0)), PtrTo(NamedIntV("customEncodedIntPtr", 1)),
     customEncodedStrings(<<>>), customEncodedStrings(<<"a">>),
     customEncodedStrings(<<"err">>), NilPtr(<<"customEncodedStrings">>),
     NilInterface("Encoder"), InterfaceOf("Encoder", NamedIntV("customEncodedInt", 1)),
     InterfaceOf("Encoder", NilPtr(<<"customEncodedInt">>))}

FieldValues == Scalars \cup Containers \cup Pointers \cup Interfaces \cup Encoders

\* a struct of one field V
OneField(q, v) == StructV(<<Field("V", q, v)>>)

OneFieldTags ==
    {<<>>, Opt("omitempty"), <<"v">>, <<"v">> \o Opt("omitempty"), <<"-">>, Opt("int")}

OneFieldInputs == {OneField(q, v) : q \in OneFieldTags, v \in FieldValues}

\* structs in which the custom encoder of a field E fails: in the root struct,
\* in a nested struct field, in an embedded struct, and in the direct field of
\* a struct that also has an embedded struct
FailingEncoders ==
    {customEncodedStrings(<<"err">>), customEncodedStrings(<<"a", "err">>),
     PtrTo(customEncodedStrings(<<"err">>))}

fieldA == Field("A", <<"a">>, StringV("1"))
fieldB == Field("B", <<"b">>, StringV("2"))
fieldN == Field("N", <<"n">>, NamedIntV("customEncodedInt", 1))
fieldP == Field("P", <<"p">>, StringV("3"))
fieldQ == Field("Q", <<"q">>, StringV("4"))

ErrorShapes == {"root", "nested", "embedded", "direct"}

ErrorInput(shape, e) ==
    LET fieldE == Field("E", <<"e">>, e)
    IN  CASE shape = "root" -> StructV(<<fieldA, fieldE, fieldB, fieldN>>)
          [] shape = "nested" ->
               StructV(<<fieldA, Field("S", <<"s">>, StructV(<<fieldP, fieldE, fieldQ>>)),
                         fieldB, fieldN>>)
          [] shape = "embedded" ->
               StructV(<<fieldA, Embedded("st", StructV(<<fieldP, fieldE, fieldQ>>)), fieldB>>)
          [] shape = "direct" ->
               StructV(<<fieldA, Embedded("st", StructV(<<fieldP>>)), fieldE, fieldB>>)

ErrorInputs == {ErrorInput(shape, e) : shape \in ErrorShapes, e \in FailingEncoders}

\* a struct with a map or struct field F and a scalar field H, traversed under
\* the scopes that the contexts below give it
ScopeContexts == {"root", "p", "pq", "m", "mm", "pinline", "elem"}

ScopeTags == {<<>>, <<"f">>, Opt("inline"), <<"f">> \o Opt("inline")}

ScopeChildren ==
    {StructV(<<Field("G", <<"g">>, StringV("x"))>>),
     PtrTo(StructV(<<Field("G", <<"g">>, StringV("x"))>>)),
     MapV(<<Entry(StringV("k"), StringV("x"))>>)}

Wrap(ctx, v) ==
    CASE ctx = "root" -> v
      [] ctx = "p" -> StructV(<<Field("P", <<"p">>, v)>>)
      [] ctx = "pq" -> StructV(<<Field("P", <<"p">>, StructV(<<Field("Q", <<"q">>, v)>>))>>)
      [] ctx = "m" -> MapV(<<Entry(StringV("m"), v)>>)
      [] ctx = "mm" -> MapV(<<Entry(StringV("m"), MapV(<<Entry(StringV("k"), v)>>))>>)
      [] ctx = "pinline" -> StructV(<<Field("P", Opt("inline"), v)>>)
      [] ctx = "elem" ->
           StructV(<<Field("L", <<"l">> \o Opt("idx"), SliceV(<<"struct">>, <<v>>))>>)

ScopeInput(ctx, q, child) ==
    Wrap(ctx, StructV(<<Field("F", q, child), Field("H", <<"h">>, StringV("y"))>>))

ScopeInputs ==
    {ScopeInput(ctx, q, child) : ctx \in ScopeContexts, q \in ScopeTags, child \in ScopeChildren}

\* nil pointers and nil interfaces as map values and keys, as elements of a
\* slice field and as keys and values of the pair mode of a root slice
NilValues ==
    {NilPtr(<<"string">>), NilAny, PtrTo(NilAny), AnyOf(NilPtr(<<"int">>)),
     PtrTo(NilPtr(<<"string">>))}

\* v as an element of a []interface{}
AsElem(v) == IF v.kind = "Interface" THEN v ELSE AnyOf(v)

NilInputs ==
    UNION {{MapV(<<Entry(StringV("k"), v)>>),
            MapV(<<Entry(v, StringV("x"))>>),
            OneField(<<>>, SliceV(<<"interface{}">>, <<AsElem(v)>>)),
            OneField(Opt("comma"), SliceV(<<"interface{}">>, <<AsElem(v)>>)),
            SliceV(<<"interface{}">>, <<AnyOf(StringV("a")), AsElem(v)>>),
            SliceV(<<"interface{}">>, <<AsElem(v), AnyOf(StringV("a"))>>)} : v \in NilValues}

\* a struct of one slice or array field V with the options q and the del tag
JoinTags ==
    {<<>>, Opt("comma"), Opt("space"), Opt("semicolon"), Opt("brackets"),
     Opt("comma") \o Opt("brackets"), Opt("int") \o Opt("space"),
     Opt("brackets") \o Opt("comma"), Opt("space") \o Opt("comma"),
     Opt("semicolon") \o Opt("space"), Opt("brackets") \o Opt("semicolon"),
     Opt("int") \o <<",", "del", ":", "!">>}

JoinDels == {"", "|"}

JoinSlices ==
    {SliceV(<<"string">>, <<StringV("a"), StringV("b")>>),
     ArrayV(<<"string">>, <<StringV("a")>>),
     SliceV(<<"bool">>, <<BoolV(TRUE), BoolV(FALSE)>>)}

JoinInput(q, del, v) == StructV(<<Tagged("V", q, del, v)>>)

JoinInputs == {JoinInput(q, del, v) : q \in JoinTags, del \in JoinDels, v \in JoinSlices}

\* root slices and arrays of scalars
RootScalars ==
    SeqsUpTo({StringV(""), StringV("a"), StringV("b")}, MaxSliceLen)
    \cup SeqsUpTo({IntV(0), IntV(1)}, MaxSliceLen)

\* the slice and the array of the elements xs, all of one scalar type
ScalarSlice(xs) == SliceV(IF xs = <<>> THEN <<"string">> ELSE xs[1].typ, xs)
ScalarArray(xs) == ArrayV(IF xs = <<>> THEN <<"string">> ELSE xs[1].typ, xs)

RootSliceInputs ==
    {ScalarSlice(xs) : xs \in RootScalars} \cup {ScalarArray(xs) : xs \in RootScalars}

\* slices of scalars that are not empty, as the value of a map entry and as
\* the element of a root slice, alone or after a map or struct element
NestedScalars == SeqsUpTo({StringV("a"), StringV("b")}, MaxSliceLen) \ {<<>>}

elemMap == MapV(<<Entry(StringV("a"), StringV("1"))>>)
elemStruct == StructV(<<Field("G", <<"g">>, StringV("x"))>>)

InEntry(v) == MapV(<<Entry(StringV("k"), v)>>)
InSlice(v) == SliceV(v.typ, <<v>>)
After(first, xs) ==
    SliceV(<<"interface{}">>, <<AnyOf(first)>> \o [i \in 1..Len(xs) |-> AnyOf(xs[i])])

NestedSliceInputs ==
    UNION {{InEntry(ScalarSlice(xs)), InSlice(ScalarSlice(xs)),
            InEntry(After(elemMap, xs)), InEntry(After(elemStruct, xs))} :
           xs \in NestedScalars}

\* maps of at most MaxMapLen of the entries below, at the root and in a struct
\* field: two pairs of entries give the same key, one entry is empty
MapEntryPool ==
    <<Entry(AnyOf(StringV("a")), AnyOf(StringV("x"))),
      Entry(AnyOf(IntV(1)), AnyOf(StringV("y"))),
      Entry(AnyOf(StringV("1")), AnyOf(StringV("z"))),
      Entry(AnyOf(StringV("b")), NilAny),
      Entry(AnyOf(StringV("c")), AnyOf(MapV(<<Entry(StringV("d"), StringV("w"))>>))),
      Entry(AnyOf(StringV("c[d]")), AnyOf(StringV("v")))>>

Increasing(q) == \A i \in 1..Len(q) - 1 : q[i] < q[i + 1]

PoolMaps ==
    {MapV([i \in 1..Len(q) |-> MapEntryPool[q[i]]]) :
        q \in {r \in SeqsUpTo(1..Len(MapEntryPool), MaxMapLen) : Increasing(r)}}

MapInputs == PoolMaps \cup {OneField(<<"m">>, m) : m \in PoolMaps}

\* a struct of one slice field V that is not joined: the element key options,
\* over slices of scalars, of maps and of structs
ElementTags ==
    {<<>>, Opt("brackets"), Opt("numbered"), Opt("idx"), <<"v">> \o Opt("idx")}

ElementScalars == SeqsUpTo({StringV(""), StringV("a"), StringV("b")}, MaxSliceLen) \ {<<>>}

ElementContainers ==
    {<<elemMap>>, <<elemMap, elemMap>>, <<elemStruct>>, <<elemStruct, elemStruct>>}

ElementInput(q, xs) == OneField(q, SliceV(xs[1].typ, xs))

ElementInputs ==
    {ElementInput(q, xs) : q \in ElementTags, xs \in ElementScalars \cup ElementContainers}

\* structs with an embedded struct Inner and direct fields that write the
\* same key V, at the root and in a struct field P
EmbeddedShapes == {"first", "last", "ptr", "nested", "deep"}

EmbeddedStruct(shape) ==
    LET innerStruct == StructV(<<Field("V", <<>>, StringV("a")),
                                 Field("W", <<"w">>, StringV("c"))>>)
        directV == Field("V", <<>>, StringV("b"))
        directN == Field("N", <<"n">>, StructV(<<Field("V", <<"v">>, StringV("d"))>>))
        midStruct == StructV(<<Embedded("Inner", innerStruct),
                               Field("V", <<>>, StringV("m"))>>)
    IN  CASE shape = "first" -> StructV(<<Embedded("Inner", innerStruct), directV>>)
          [] shape = "last" -> StructV(<<directV, Embedded("Inner", innerStruct)>>)
          [] shape = "ptr" -> StructV(<<Embedded("Inner", PtrTo(innerStruct)), directV>>)
          [] shape = "nested" -> StructV(<<Embedded("Inner", innerStruct), directN, directV>>)
          [] shape = "deep" -> StructV(<<Embedded("Mid", midStruct), directV>>)

EmbeddedInput(ctx, shape) == Wrap(ctx, EmbeddedStruct(shape))

EmbeddedInputs == {EmbeddedInput(ctx, shape) : ctx \in {"root", "p"}, shape \in EmbeddedShapes}

\* query strings as the root: the strings of TestValues_string, and strings
\* with escapes, empty settings and settings url.ParseQuery rejects
RootStrings ==
    {"", "?", "??", "a=a&b=b", "?a[]=1&a[]=2", "a.i=1&a.j=2",
     "a%5Bb%5D=c+d&a%5Bb%5D=", "=v&&k", "a=1%26b%3D%2B", "a=1;b=2", "a=%zz&b=1"}

RootStringInputs ==
    UNION {{StringV(s), PtrTo(StringV(s)), BytesV(s), PtrTo(AnyOf(StringV(s)))} :
           s \in RootStrings}

\* url.Values as the root, some with a key that has no value
UrlValuesInputs ==
    LET maps == {NoValues, "a" :> <<>>, "a" :> <<"1", "2">>, "a" :> <<"1&b=+">>,
                 ("a[b]" :> <<"c d">>) @@ ("" :> <<"">>),
                 ("k" :> <<>>) @@ ("a" :> <<"=">>)}
    IN  UNION {{UrlValuesV(m), PtrTo(UrlValuesV(m))} : m \in maps}

\* roots that are neither a string, a byte slice, a map, a slice, an array nor
\* a struct, behind zero, one or two pointers, and nil roots and root pointers
UnsupportedInputs ==
    LET others == {IntV(0), IntV(1), BoolV(TRUE), NamedIntV("customEncodedInt", 1),
                   NilAny, AnyOf(IntV(1))}
    IN  (others \ {AnyOf(IntV(1))})
        \cup {PtrTo(v) : v \in others} \cup {PtrTo(PtrTo(v)) : v \in others}
        \cup {NilPtr(typ) : typ \in {<<"int">>, <<"struct">>, <<"string">>, <<"*", "struct">>}}
        \cup {PtrTo(NilPtr(typ)) : typ \in {<<"int">>, <<"struct">>}}

\* a struct of one time.Time field V, or pointer to one, with the options q
\* and the layout tag
TimeInput(q, layout, t) == StructV(<<[Field("V", q, t) EXCEPT !.layout = layout]>>)

TimeTags ==
    {<<>>, Opt("unix"), Opt("unixmilli"), Opt("unixnano"),
     Opt("unixnano") \o Opt("unix"), Opt("unixnano") \o Opt("unixmilli"),
     Opt("unixmilli") \o Opt("unix"), Opt("int")}

TimeInputs ==
    LET times == {TimeV(TRUE, 0), TimeV(FALSE, 1), TimeV(FALSE, 2)}
    IN  {TimeInput(q, layout, t) :
            q \in TimeTags, layout \in {"", "2006-01-02"},
            t \in times \cup {PtrTo(x) : x \in times}}

\* a struct of one field V whose tag is "-", or names the field "-"
DashTags == {<<"-">>, <<"-", ",">>, <<"-">> \o Opt("omitempty"), <<"-">> \o Opt("int")}

DashInputs == {OneField(q, v) : q \in DashTags, v \in FieldValues}

\* a struct of one field V holding one slice of scalars: a slice nested in a
\* slice field
InField(v) == OneField(<<>>, SliceV(v.typ, <<v>>))

SliceFieldInputs == {InField(ScalarSlice(xs)) : xs \in NestedScalars}

Inputs ==
    OneFieldInputs \cup ErrorInputs \cup ScopeInputs \cup NilInputs \cup JoinInputs
    \cup RootSliceInputs \cup NestedSliceInputs \cup MapInputs \cup ElementInputs
    \cup EmbeddedInputs \cup RootStringInputs \cup UrlValuesInputs \cup UnsupportedInputs
    \cup TimeInputs \cup DashInputs \cup SliceFieldInputs

\* the length of the longest map in v
RECURSIVE longestMap(_)
RECURSIVE longestMapOf(_)
longestMapOf(vs) ==
    IF vs = <<>> THEN 0
    ELSE LET a == longestMap(Head(vs))
             b == longestMapOf(Tail(vs))
         IN  IF a > b THEN a ELSE b

longestMap(v) ==
    LET here == Len(v.kv)
        below == longestMapOf(v.elem \o v.xs
                              \o [i \in 1..Len(v.kv) |-> v.kv[i].v]
                              \o [i \in 1..Len(v.fs) |-> v.fs[i].v])
    IN  IF here > below THEN here ELSE below

Identity == [i \in 1..MaxMapLen |-> i]

\* the orders range can visit the entries of the maps of v in
IterOrders(v) ==
    {p \in Permutations(1..MaxMapLen) : \A i \in 1..MaxMapLen : i > longestMap(v) => p[i] = i}

(***************************************************************************)
(* The state machine: one call of Values, after any calls of               *)
(* SetScopeJoiner.                                                         *)
(***************************************************************************)
(***************************************************************************)
(* The content-type registry: defaultContentType, its lock, and the        *)
(* goroutines that call the functions reading and writing it.              *)
(***************************************************************************)
Goroutines == 1..NumGoroutines

defaultSubType ==
    ("*" :> "json") @@ ("json" :> "json") @@ ("x-protobuf" :> "proto")
    @@ ("xml" :> "xml") @@ ("x-yaml" :> "yaml") @@ ("yaml" :> "yaml")
    @@ ("plain" :> "plain")

\* the subtype of a content type without the vendor part removed
subContentTypeWithVendor(contentType) ==
    LET left == IndexOf(contentType, "/", 1)
        right == IndexOf(contentType, ";", 1)
        stop == IF right = 0 THEN Len(contentType) + 1 ELSE right
    IN  IF left = 0 \/ stop < left THEN "" ELSE SubSeq(contentType, left + 1, stop - 1)

\* left, right and plus are the indices of strings.Index plus one, 0 for -1
subContentType(contentType) ==
    LET left == IndexOf(contentType, "/", 1)
        semi == IndexOf(contentType, ";", 1)
        right == IF semi = 0 THEN Len(contentType) + 1 ELSE semi
        sct == SubSeq(contentType, left + 1, right - 1)
        plus == IndexOf(sct, "+", 1)
    IN  IF contentType = "" THEN ""
        ELSE IF left = 0 THEN ""
        ELSE IF right < left THEN ""
        ELSE IF plus > 0 THEN SubSeq(sct, plus + 1, Len(sct))
        ELSE sct

\* a goroutine: pc is where it stands, op the function it called, name and
\* cname the arguments of set and get, rest the header values that
\* CodecForRequest and CodecForResponse have still to look up, got the name
\* of the codec returned ("" is the nil codec)
Goroutine(at, op, name, cname, rest, got) ==
    [pc |-> at, op |-> op, name |-> name, cname |-> cname, rest |-> rest, got |-> got]

Idle == Goroutine("idle", "", "", "", <<>>, "")

ContentTypes == {"", "application/json", "application/vnd.api+json; charset=utf-8", "text/csv"}

Go(g, next) ==
    /\ ~fatal
    /\ goroutine' = [goroutine EXCEPT ![g] = next]

RegisterCodecName(g, contentType, name) ==
    /\ goroutine[g].pc = "idle"
    /\ Go(g, IF name = "" THEN Goroutine("returned", "RegisterCodecName", "", "", <<>>, "")
             ELSE Goroutine("set", "RegisterCodecName", subContentType(contentType), name, <<>>, ""))
    /\ UNCHANGED <<subType, mu, fatal, notRegistry>>

\* codec is the name of the codec, "" the nil codec
RegisterCodec(g, contentType, codec) ==
    /\ goroutine[g].pc = "idle"
    /\ Go(g, IF codec = "" THEN Goroutine("returned", "RegisterCodec", "", "", <<>>, "")
             ELSE Goroutine("set", "RegisterCodec", subContentType(contentType), codec, <<>>, ""))
    /\ UNCHANGED <<subType, mu, fatal, notRegistry>>

CodecForString(g, contentType) ==
    /\ goroutine[g].pc = "idle"
    /\ Go(g, Goroutine("get", "CodecForString", subContentType(contentType), "", <<>>, ""))
    /\ UNCHANGED <<subType, mu, fatal, notRegistry>>

\* header: the values of the request's or response's Content-Type header
CodecForHeader(g, op, header) ==
    /\ goroutine[g].pc = "idle"
    /\ Go(g, IF header = <<>> THEN Goroutine("returned", op, "", "", <<>>, "json")
             ELSE Goroutine("get", op, subContentType(Head(header)), "", Tail(header), ""))
    /\ UNCHANGED <<subType, mu, fatal, notRegistry>>

CodecForRequest(g, header) == CodecForHeader(g, "CodecForRequest", header)

CodecForResponse(g, header) == CodecForHeader(g, "CodecForResponse", header)

\* Client.Invoke with a request body, for a client of the content type given
Invoke(g, contentType) ==
    /\ goroutine[g].pc = "idle"
    /\ Go(g, Goroutine("get", "Invoke", subContentType(contentType), "", <<>>, ""))
    /\ UNCHANGED <<subType, mu, fatal, notRegistry>>

\* contentType.set: c.mu.Lock()
Lock(g) ==
    /\ goroutine[g].pc = "set"
    /\ mu = 0
    /\ mu' = g
    /\ Go(g, [goroutine[g] EXCEPT !.pc = "set.assign"])
    /\ UNCHANGED <<subType, fatal, notRegistry>>

\* c.subType[name] = cname: the assignment to a map takes time
AssignBegin(g) ==
    /\ goroutine[g].pc = "set.assign"
    /\ Go(g, [goroutine[g] EXCEPT !.pc = "set.assigning"])
    /\ UNCHANGED <<subType, mu, fatal, notRegistry>>

AssignEnd(g) ==
    /\ goroutine[g].pc = "set.assigning"
    /\ subType' = (goroutine[g].name :> goroutine[g].cname) @@ subType
    /\ Go(g, [goroutine[g] EXCEPT !.pc = "set.Unlock"])
    /\ UNCHANGED <<mu, fatal, notRegistry>>

\* defer c.mu.Unlock()
Unlock(g) ==
    /\ goroutine[g].pc = "set.Unlock"
    /\ mu' = 0
    /\ Go(g, [goroutine[g] EXCEPT !.pc = "returned"])
    /\ UNCHANGED <<subType, fatal, notRegistry>>

\* the goroutines in the middle of the assignment to the map
Assigning == {w \in Goroutines : goroutine[w].pc = "set.assigning"}

\* contentType.get: c.subType[name], which takes no lock.  A read of a map
\* that another goroutine is assigning to is a data race: the run time may
\* stop the program ("concurrent map read and map write"), or the read goes on
AccessBegin(g) ==
    /\ goroutine[g].pc = "get"
    /\ ~fatal
    /\ \/ /\ goroutine' = [goroutine EXCEPT ![g].pc = "get.reading"]
          /\ UNCHANGED fatal
       \/ /\ Assigning # {}
          /\ fatal' = TRUE
          /\ UNCHANGED goroutine
    /\ UNCHANGED <<subType, mu, notRegistry>>

\* the end of the read and of get: the codec of the name read, the next header
\* value for the callers that try several, json where none has a codec.  A
\* read that races with an assignment to its key gives the old or the new name
AccessEnd(g) ==
    LET G == goroutine[g]
        old == IF G.name \in DOMAIN subType THEN subType[G.name] ELSE ""
        racing == {goroutine[w].cname : w \in {x \in Assigning : goroutine[x].name = G.name}}
    IN  /\ G.pc = "get.reading"
        /\ \E got \in {old} \cup racing :
              Go(g, IF got = "" /\ G.rest # <<>>
                    THEN [G EXCEPT !.pc = "get", !.name = subContentType(Head(G.rest)),
                                   !.rest = Tail(G.rest)]
                    ELSE [G EXCEPT !.pc = "returned",
                                   !.got = IF got = "" /\ G.op \in {"CodecForRequest", "CodecForResponse"}
                                           THEN "json" ELSE got])
        /\ UNCHANGED <<subType, mu, fatal, notRegistry>>

RegistryInit ==
    /\ subType = defaultSubType
    /\ mu = 0
    /\ goroutine = [g \in Goroutines |-> Idle]
    /\ fatal = FALSE

(***************************************************************************)
(* The clients of package ghttp (client.go).  An *http.Transport is an     *)
(* entry of the variable transports, named by the variable or expression   *)
(* of the program that holds the pointer; a RoundTripper of another type   *)
(* has no entry.  A nil *tls.Config and a nil proxy function are "".       *)
(* Durations and instants are whole seconds, the instant of the call is 0, *)
(* and the deadline 0 is no deadline.                                      *)
(***************************************************************************)
MaxClients == 2

Transport(tls, proxy) == [TLSClientConfig |-> tls, Proxy |-> proxy]

\* http.DefaultTransport as net/http declares it, and &http.Transport{}
DefaultTransport == Transport("", "http.ProxyFromEnvironment")

InitialTransports ==
    ("http.DefaultTransport" :> DefaultTransport) @@ ("custom" :> Transport("", ""))

\* the options NewClient starts from
defaultOptions ==
    [contentType |-> "application/json", timeout |-> 5,
     transport |-> "http.DefaultTransport",
     tlsConf |-> "", proxy |-> "", limiter |-> FALSE]

\* a ClientOption assigns one field of the options
WithLimiter == <<"limiter", TRUE>>
WithTransport(transport) == <<"transport", transport>>
WithTLSConfig(cfg) == <<"tlsConf", cfg>>
WithTimeout(timeout) == <<"timeout", timeout>>
WithContentType(contentType) == <<"contentType", contentType>>
WithProxy(f) == <<"proxy", f>>

\* "for _, o := range opts { o(&options) }"
RECURSIVE applyOptions(_, _)
applyOptions(options, opts) ==
    IF opts = <<>> THEN options
    ELSE applyOptions([options EXCEPT ![Head(opts)[1]] = Head(opts)[2]], Tail(opts))

\* the transports once NewClient has stored the TLS configuration and the
\* proxy in options.transport, when that is an *http.Transport
configureTransport(options, ts) ==
    IF (options.tlsConf # "" \/ options.proxy # "") /\ options.transport \in DOMAIN ts
    THEN [ts EXCEPT ![options.transport] =
              Transport(IF options.tlsConf # "" THEN options.tlsConf ELSE @.TLSClientConfig,
                        IF options.proxy # "" THEN options.proxy ELSE @.Proxy)]
    ELSE ts

\* the Client that NewClient returns
newClient(options) ==
    [opts |-> options,
     hc |-> [Transport |-> options.transport],
     contentSubType |-> subContentType(options.contentType)]

\* the content types given to WithContentType
ClientContentTypes ==
    ContentTypes \cup {"application/vnd.api+json", "text/plain; charset=utf-8",
                       "a;b/c", "text/", "json", "x/a+b+c;d"}

\* the option lists given to NewClient
ClientOptionLists ==
    {<<>>, <<WithTLSConfig("tlsA")>>, <<WithProxy("proxyA")>>,
     <<WithTLSConfig("tlsB"), WithProxy("proxyB")>>,
     <<WithTransport("custom"), WithTLSConfig("tlsA")>>,
     <<WithTransport("roundTripper"), WithProxy("proxyA")>>,
     <<WithTimeout(0)>>, <<WithTimeout(0 - 1), WithLimiter>>, <<WithLimiter>>}
    \cup {<<WithContentType(ct)>> : ct \in ClientContentTypes}

\* a *http.Request: the fields the calls read and write, the deadline of its
\* context among them
Request(rawQuery, deadline) ==
    [nil |-> FALSE, Path |-> "/p", RawQuery |-> rawQuery, Authorization |-> "",
     deadline |-> deadline]

NilRequest == [Request("", 0) EXCEPT !.nil = TRUE]

\* no call of Do or Invoke is open
NoCall ==
    [pc |-> "idle", op |-> "", c |-> 0, req |-> NilRequest, given |-> 0, ctx |-> 0,
     args |-> FALSE, opts |-> <<>>, i |-> 0, trace |-> <<>>, response |-> "",
     err |-> "", set |-> <<>>]

NewClient(opts) ==
    /\ Len(clients) < MaxClients
    /\ call.pc = "idle"
    /\ LET options == applyOptions(defaultOptions, opts)
       IN  /\ transports' = configureTransport(options, transports)
           /\ clients' = Append(clients, newClient(options))
    /\ UNCHANGED <<call, notClient>>

ClientInit ==
    /\ transports = InitialTransports
    /\ clients = <<>>
    /\ call = NoCall

(***************************************************************************)
(* One call of Client.Do or Client.Invoke, step by step.  The calls out of *)
(* the client (Limiter.Wait, the hooks of the call options, the codec, the *)
(* round trip of http.Client.Do) are steps of their own, and what they     *)
(* return is chosen when the step is taken.  The field trace of the call   *)
(* lists those steps in the order they were taken.                         *)
(***************************************************************************)
MaxCallOptions == 2

ErrNilRequest == "http: nil http request"
ErrLimiter == "rate: Wait(n=1) would exceed context deadline"
ErrBeforeHook == "BeforeHook failed"
ErrAfterHook == "AfterHook failed"
ErrTransport == "dial tcp: connection refused"
ErrUnsupportedContentType == "request: unsupported content type"
ErrMarshal == "Marshal failed"
ErrBind == "BindResponseBody failed"

\* &CallOptions{...}: a hook is "" when nil, "ok" when it returns nil and
\* "err" when it returns an error
CallOptions(q, token, beforeHook, afterHook) ==
    [type |-> "CallOptions", Query |-> q, BearerToken |-> token,
     BeforeHook |-> beforeHook, AfterHook |-> afterHook]

\* Query(q): a queryCallOption
Query(q) ==
    [type |-> "queryCallOption", Query |-> q, BearerToken |-> "",
     BeforeHook |-> "", AfterHook |-> ""]

\* the raw query replaced by the encoded query
rawQueryReplaced(rawQuery, queryStr) == queryStr

\* "if req.URL.RawQuery == "" { ... = queryStr } else { ... += "&" + queryStr }"
rawQueryWith(rawQuery, queryStr) ==
    IF rawQuery = "" THEN queryStr ELSE rawQuery \o "&" \o queryStr

\* setQuery once query.Values has returned R and values.Encode() queryStr
setQueryEncoded(req, q, R, queryStr) ==
    IF q.kind = "Interface" /\ IsNil(q) THEN [req |-> req, err |-> "", panic |-> ""]
    ELSE IF R.panic # "" THEN [req |-> req, err |-> "", panic |-> R.panic]
    ELSE IF R.err # "" THEN [req |-> req, err |-> R.err, panic |-> ""]
    ELSE IF queryStr = "" THEN [req |-> req, err |-> "", panic |-> ""]
    ELSE [req |-> [req EXCEPT !.RawQuery = rawQueryWith(@, queryStr)],
          err |-> "", panic |-> ""]

setQueryValues(req, q, R) == setQueryEncoded(req, q, R, Encode(R.values))

\* setQuery and SetQuery: the request afterwards, the error returned and the
\* panic of query.Values
setQuery(req, q) == setQueryValues(req, q, Values(q, Identity))

\* callOpt.Before(req) of a *CallOptions, s being what its setQuery gives
callOptionsBefore(o, req, s) ==
    IF o.BeforeHook = "err" THEN [req |-> req, err |-> ErrBeforeHook, panic |-> ""]
    ELSE IF s.err # "" \/ s.panic # "" \/ o.BearerToken = "" THEN s
    ELSE [s EXCEPT !.req.Authorization = "Bearer " \o o.BearerToken]

\* callOpt.Before(req) of a queryCallOption and of a *CallOptions
optionBefore(o, req, s) ==
    IF o.type = "queryCallOption" THEN s ELSE callOptionsBefore(o, req, s)

CallBefore(o, req) == optionBefore(o, req, setQuery(req, o.Query))

\* callOpt.After(response): the error returned
CallAfter(o) == IF o.type = "CallOptions" /\ o.AfterHook = "err" THEN ErrAfterHook ELSE ""

\* setTimeout that sets the client's timeout whatever the context
setTimeoutAlways(c, deadline) ==
    IF c.opts.timeout > 0 THEN [deadline |-> c.opts.timeout, ok |-> TRUE]
    ELSE [deadline |-> deadline, ok |-> FALSE]

\* Client.setTimeout: the deadline of the context returned
setTimeout(c, deadline) ==
    IF c.opts.timeout > 0 /\ deadline = 0
    THEN [deadline |-> c.opts.timeout, ok |-> TRUE]
    ELSE [deadline |-> deadline, ok |-> FALSE]

Event(what, i, outcome) == [what |-> what, i |-> i, outcome |-> outcome]

Traced(e) == [call EXCEPT !.trace = Append(@, e)]

\* the call has returned err, or the response when err is ""
Returned(cl, response, err) ==
    [cl EXCEPT !.pc = "returned", !.response = response, !.err = err]

\* the values given as q
QueryArgs ==
    {NilAny, NilPtr(<<"struct">>), StringV("a=1&b=2"), StructV(<<>>),
     OneField(<<>>, StringV("a b")), IntV(1), InEntry(ScalarSlice(<<StringV("a")>>))}

CallOptionValues ==
    {Query(OneField(<<>>, StringV("a b"))), Query(IntV(1)),
     CallOptions(NilAny, "tok", "ok", "ok"),
     CallOptions(NilAny, "", "err", ""),
     CallOptions(StringV("a=1"), "", "", "err")}

CallOptionLists == SeqsUpTo(CallOptionValues, MaxCallOptions)

\* the call once setQuery has given s for q
afterSetQuery(q, s) ==
    [call EXCEPT !.pc = IF s.panic # "" THEN "panicked" ELSE @,
                 !.req = s.req,
                 !.set = <<[req |-> call.req, q |-> q, got |-> s]>>]

\* the caller's SetQuery(req, q) on the request it is preparing
SetQuery(q) ==
    /\ call.pc = "idle"
    /\ call.set = <<>>
    /\ ~call.req.nil
    /\ call' = afterSetQuery(q, setQuery(call.req, q))
    /\ UNCHANGED <<transports, clients, notClient>>

\* Client.Do up to the call of Limiter.Wait: the caller gives the request it
\* has prepared, or nil
ClientDo(c, nilReq, opts) ==
    /\ call.pc = "idle"
    /\ c \in 1..Len(clients)
    /\ LET req == IF nilReq THEN NilRequest ELSE call.req
           t == setTimeout(clients[c], req.deadline)
           begun == [NoCall EXCEPT !.op = "Do", !.c = c, !.req = req, !.opts = opts]
       IN  call' = IF req.nil THEN Returned(begun, "", ErrNilRequest)
                   ELSE [begun EXCEPT
                           !.pc = IF clients[c].opts.limiter THEN "wait" ELSE "before",
                           !.req = IF t.ok THEN [req EXCEPT !.deadline = t.deadline] ELSE req,
                           !.given = req.deadline, !.ctx = t.deadline, !.i = 1]
    /\ UNCHANGED <<transports, clients, notClient>>

\* Client.Invoke up to the call of Limiter.Wait
ClientInvoke(c, deadline, args, opts) ==
    /\ call.pc = "idle"
    /\ call.set = <<>>
    /\ c \in 1..Len(clients)
    /\ LET t == setTimeout(clients[c], deadline)
       IN  call' = [NoCall EXCEPT
                      !.pc = IF clients[c].opts.limiter THEN "wait" ELSE "request",
                      !.op = "Invoke", !.c = c, !.opts = opts, !.args = args,
                      !.given = deadline, !.ctx = t.deadline, !.i = 1]
    /\ UNCHANGED <<transports, clients, notClient>>

\* the call once Limiter.Wait has returned, cl being the call with the step
\* traced, when the error of Wait is dropped
afterWaitIgnoringError(outcome, cl) ==
    [cl EXCEPT !.pc = IF call.op = "Invoke" THEN "request" ELSE "before"]

\* "if err := c.opts.limiter.Wait(ctx); err != nil { return nil, err }"
afterWait(outcome, cl) ==
    IF outcome = "err" THEN Returned(cl, "", ErrLimiter)
    ELSE [cl EXCEPT !.pc = IF call.op = "Invoke" THEN "request" ELSE "before"]

\* c.opts.limiter.Wait(ctx) returns
LimiterWait(outcome) ==
    /\ call.pc = "wait"
    /\ call' = afterWait(outcome, Traced(Event("Wait", call.ctx, outcome)))
    /\ UNCHANGED <<transports, clients, notClient>>

\* Client.Invoke from the codec to http.NewRequestWithContext
InvokeRequest(marshal) ==
    /\ call.pc = "request"
    /\ call.args \/ marshal = "ok"
    /\ LET name == clients[call.c].contentSubType
           codec == IF name \in DOMAIN subType THEN subType[name] ELSE ""
       IN  call' = IF call.args /\ codec = ""
                   THEN Returned(call, "", ErrUnsupportedContentType)
                   ELSE IF call.args /\ marshal = "err" THEN Returned(call, "", ErrMarshal)
                   ELSE [call EXCEPT !.pc = "before", !.req = Request("", call.ctx)]
    /\ UNCHANGED <<transports, clients, notClient>>

\* a loop over the Before callbacks that goes on after an error
afterBeforeIgnoringError(o, b, cl) ==
    IF b.panic # "" THEN [cl EXCEPT !.pc = "panicked"]
    ELSE [cl EXCEPT !.req = b.req, !.i = @ + 1]

\* the call once the Before of the option o has given b
afterBefore(o, b, cl) ==
    IF b.panic # "" THEN [cl EXCEPT !.pc = "panicked"]
    ELSE IF b.err # "" THEN Returned(cl, "", b.err)
    ELSE [cl EXCEPT !.req = b.req, !.i = @ + 1]

tracedBefore(o, b) ==
    afterBefore(o, b,
        [Traced(Event("Before", call.i,
                      IF b.panic # "" THEN "panic" ELSE IF b.err # "" THEN "err" ELSE "ok"))
           EXCEPT !.set = IF o.type = "queryCallOption"
                          THEN <<[req |-> call.req, q |-> o.Query, got |-> b]>>
                          ELSE <<>>])

\* Client.do: the Before of the next call option
DoBefore ==
    /\ call.pc = "before"
    /\ call.i <= Len(call.opts)
    /\ call' = tracedBefore(call.opts[call.i], CallBefore(call.opts[call.i], call.req))
    /\ UNCHANGED <<transports, clients, notClient>>

\* Client.do: c.hc.Do(req) returns a response with a status, or an error
DoSend(outcome) ==
    /\ call.pc = "before"
    /\ call.i > Len(call.opts)
    /\ LET cl == Traced(Event("Send", call.req.deadline, outcome))
       IN  call' = IF outcome = "err" THEN Returned(cl, "", ErrTransport)
                   ELSE [cl EXCEPT !.pc = "after", !.response = outcome, !.i = 1]
    /\ UNCHANGED <<transports, clients, notClient>>

\* Client.do: the After of the next call option
DoAfter ==
    /\ call.pc = "after"
    /\ call.i <= Len(call.opts)
    /\ LET err == CallAfter(call.opts[call.i])
           cl == Traced(Event("After", call.i, IF err # "" THEN "err" ELSE "ok"))
       IN  call' = IF err # "" THEN Returned(cl, "", err)
                   ELSE [cl EXCEPT !.i = @ + 1]
    /\ UNCHANGED <<transports, clients, notClient>>

\* Client.do returns the response, and Client.Invoke binds its body to reply
DoReturn(bind) ==
    /\ call.pc = "after"
    /\ call.i > Len(call.opts)
    /\ call.op = "Invoke" \/ bind = "ok"
    /\ call' = IF bind = "err" THEN Returned(call, "", ErrBind)
               ELSE Returned(call, call.response, "")
    /\ UNCHANGED <<transports, clients, notClient>>

\* the clients that make the calls, and the requests the caller prepares
CallClients ==
    {<<>>, <<WithTimeout(0)>>, <<WithTimeout(0 - 1), WithLimiter>>, <<WithLimiter>>,
     <<WithContentType("text/csv")>>}

CallRequests == {Request("", 0), Request("x=1", 0), Request("x=1", 3)}

CallInit ==
    /\ \E opts \in CallClients :
          LET options == applyOptions(defaultOptions, opts)
          IN  /\ transports = configureTransport(options, InitialTransports)
              /\ clients = <<newClient(options)>>
    /\ \E req \in CallRequests : call = [NoCall EXCEPT !.req = req]

(***************************************************************************)
(* The recursion of the traversal, call by call: the stack of the calls of *)
(* reflectStruct, reflectMap and reflectSlice that are open, each a frame  *)
(* [v, i] of the value traversed and the number of the next of the values  *)
(* that the call recurses into.                                            *)
(***************************************************************************)
\* a pointer field that points back to the root struct it is part of
SelfPtr == [PtrTo(StructV(<<>>)) EXCEPT !.b = TRUE]

\* sv after "if sv.Kind() == reflect.Interface { sv = sv.Elem() }" and the
\* pointer loop, for a traversal that started at root
walkDeref(root, sv) == IF sv = SelfPtr THEN root ELSE dereference(sv)

walkRecursed(v) == IsValid(v) /\ v.kind \in {"Map", "Slice", "Array", "Struct"} /\ v.typ # timeType

\* the elements that handleSliceValue makes a recursive call for
walkElements(root, xs) ==
    SelectSeq([j \in 1..Len(xs) |-> IF isEmptyValue(xs[j]) THEN Invalid ELSE walkDeref(root, xs[j])],
              walkRecursed)

\* the values that the loop over field sf of reflectStruct recurses into
walkField(root, sf) ==
    LET tag == fieldTag(sf)
        pt == parseTag(tag, sf)
        sv == walkDeref(root, sf.v)
    IN  IF sf.PkgPath # "" /\ ~sf.Anonymous THEN <<>>
        ELSE IF ignoredTag(tag) THEN <<>>
        ELSE IF pt.name = "" /\ sf.Anonymous /\ Indirect(sf.v).kind = "Struct" THEN <<>>
        ELSE IF omitField(pt.opts, sf.v) THEN <<>>
        ELSE IF Implements(sf.v.typ) THEN <<>>
        ELSE IF ~walkRecursed(sv) THEN <<>>
        ELSE IF sv.kind \in {"Map", "Struct"} THEN <<sv>>
        ELSE IF sliceJoin(pt.opts, "").del # "" THEN <<>>
        ELSE walkElements(root, sv.xs)

\* the embedded structs that reflectStruct saves and follows after its fields
walkEmbedded(sf) ==
    IF (sf.PkgPath = "" \/ sf.Anonymous) /\ ~ignoredTag(fieldTag(sf))
       /\ parseTag(fieldTag(sf), sf).name = "" /\ sf.Anonymous
       /\ Indirect(sf.v).kind = "Struct"
    THEN <<Indirect(sf.v)>> ELSE <<>>

RECURSIVE walkFlatten(_)
walkFlatten(seqs) == IF seqs = <<>> THEN <<>> ELSE Head(seqs) \o walkFlatten(Tail(seqs))

\* the values that the call traversing v makes its recursive calls for, in
\* the order of the calls
walkChildren(root, v) ==
    IF v.kind = "Struct"
    THEN walkFlatten([i \in 1..Len(v.fs) |-> walkField(root, v.fs[i])])
         \o walkFlatten([i \in 1..Len(v.fs) |-> walkEmbedded(v.fs[i])])
    ELSE IF v.kind = "Map"
    THEN walkElements(root, [i \in 1..Len(v.kv) |-> v.kv[i].v])
    ELSE walkElements(root, v.xs)

\* a loop that does not advance
walkNextStuck(frame) == frame

\* the loop of the call goes on to its next value
walkNext(frame) == [frame EXCEPT !.i = @ + 1]

\* the nesting depth of a value: the longest chain of maps, slices, arrays and
\* structs one inside the other
RECURSIVE Nesting(_)
RECURSIVE NestingOf(_)
NestingOf(vs) ==
    IF vs = <<>> THEN 0
    ELSE LET a == Nesting(Head(vs))
             b == NestingOf(Tail(vs))
         IN  IF a > b THEN a ELSE b

Nesting(v) ==
    (IF v.kind \in {"Map", "Slice", "Array", "Struct"} THEN 1 ELSE 0)
    + NestingOf(v.elem \o v.xs \o [i \in 1..Len(v.kv) |-> v.kv[i].v]
                \o [i \in 1..Len(v.fs) |-> v.fs[i].v])

\* a struct that reaches itself through the pointer field Next
CyclicInputs ==
    {StructV(<<Field("V", <<>>, StringV("a")), Field("Next", q, SelfPtr)>>) :
        q \in {<<>>, Opt("omitempty"), <<"next">>}}

WalkInputs ==
    ScopeInputs \cup NestedSliceInputs \cup EmbeddedInputs \cup ElementInputs
    \cup UnsupportedInputs \cup CyclicInputs

NoWalk == [pc |-> "ready", stack |-> <<>>, deepest |-> 0]

\* Values: the call of reflectValue for a root that is traversed
WalkCall ==
    LET val == derefPointers(input)
        traversed == val.kind \in {"Map", "Slice", "Array", "Struct"}
                     /\ val.typ \notin {bytesType, urlValuesType}
    IN  /\ walk.pc = "ready"
        /\ walk' = IF traversed
                   THEN [pc |-> "running", stack |-> <<[v |-> val, i |-> 1]>>, deepest |-> 1]
                   ELSE [walk EXCEPT !.pc = "done"]
        /\ UNCHANGED notWalk

\* the innermost call makes its next recursive call
WalkDescend ==
    LET n == Len(walk.stack)
        top == walk.stack[n]
        children == walkChildren(input, top.v)
    IN  /\ walk.pc = "running"
        /\ n < MaxDepth
        /\ top.i <= Len(children)
        /\ walk' = [walk EXCEPT
                       !.stack = Append([@ EXCEPT ![n] = walkNext(top)],
                                        [v |-> children[top.i], i |-> 1]),
                       !.deepest = IF n + 1 > @ THEN n + 1 ELSE @]
        /\ UNCHANGED notWalk

\* the innermost call has made all its recursive calls and returns
WalkReturn ==
    LET n == Len(walk.stack)
        top == walk.stack[n]
    IN  /\ walk.pc = "running"
        /\ top.i > Len(walkChildren(input, top.v))
        /\ walk' = [walk EXCEPT !.stack = SubSeq(@, 1, n - 1),
                                !.pc = IF n = 1 THEN "done" ELSE "running"]
        /\ UNCHANGED notWalk

WalkInit ==
    /\ input \in WalkInputs
    /\ defaultScopeJoiner = "brackets"
    /\ result = NewState(Identity)
    /\ pc = "ready"
    /\ RegistryInit
    /\ walk = NoWalk
    /\ ClientInit

WalkNext == WalkCall \/ WalkDescend \/ WalkReturn

\* a call that can go on does go on
WalkSpec == WalkInit /\ [][WalkNext]_vars /\ WF_vars(WalkNext)

Init ==
    /\ input \in Inputs
    /\ defaultScopeJoiner = "brackets"
    /\ result = NewState(Identity)
    /\ pc = "ready"
    /\ RegistryInit
    /\ walk = NoWalk
    /\ ClientInit

SetScopeJoiner(sj) ==
    /\ pc = "ready"
    /\ defaultScopeJoiner' = sj
    /\ UNCHANGED <<input, result, pc, notQuery>>

CallValues ==
    /\ pc = "ready"
    /\ \E p \in IterOrders(input) : result' = Values(input, p)
    /\ pc' = "done"
    /\ UNCHANGED <<input, defaultScopeJoiner, notQuery>>

\* the caller's input after the map behind it has become m
RECURSIVE StoreThrough(_, _)
StoreThrough(v, m) ==
    IF v.kind = "Ptr" THEN PtrTo(StoreThrough(Elem(v), m)) ELSE UrlValuesV(m)

\* the caller adds a value to the url.Values that the call returned: a map
\* that is the caller's own input map changes the input with it
CallerAdd(k, v) ==
    /\ pc = "done"
    /\ result.panic = ""
    /\ result' = [result EXCEPT !.values = ValuesAdd(@, k, v)]
    /\ input' = IF result.shared THEN StoreThrough(input, result'.values) ELSE input
    /\ pc' = "changed"
    /\ UNCHANGED <<defaultScopeJoiner, notQuery>>

Next ==
    \/ \E sj \in {"brackets", "dot"} : SetScopeJoiner(sj)
    \/ CallValues
    \/ \E k \in {"a", "zz"} : CallerAdd(k, "x")

Spec == Init /\ [][Next]_vars

\* the registry under concurrent calls, no encoding going on
RegistryStart ==
    /\ input = StringV("")
    /\ defaultScopeJoiner = "brackets"
    /\ result = NewState(Identity)
    /\ pc = "ready"
    /\ RegistryInit
    /\ walk = NoWalk
    /\ ClientInit

RegistryNext ==
    \E g \in Goroutines :
        \/ \E ct \in ContentTypes, name \in {"", "yaml"} : RegisterCodecName(g, ct, name)
        \/ \E ct \in ContentTypes, codec \in {"", "csv"} : RegisterCodec(g, ct, codec)
        \/ \E ct \in ContentTypes : CodecForString(g, ct)
        \/ \E h \in {<<>>, <<"text/csv", "application/json">>} : CodecForRequest(g, h)
        \/ \E h \in {<<"text/csv">>} : CodecForResponse(g, h)
        \/ \E ct \in {"application/json", "text/csv"} : Invoke(g, ct)
        \/ Lock(g)
        \/ AssignBegin(g)
        \/ AssignEnd(g)
        \/ Unlock(g)
        \/ AccessBegin(g)
        \/ AccessEnd(g)

RegistrySpec == RegistryStart /\ [][RegistryNext]_vars

\* the clients alone: the other parts stay as they start
ClientStart ==
    /\ input = StringV("")
    /\ defaultScopeJoiner = "brackets"
    /\ result = NewState(Identity)
    /\ pc = "ready"
    /\ RegistryInit
    /\ walk = NoWalk
    /\ ClientInit

ClientNext == \E opts \in ClientOptionLists : NewClient(opts)

ClientSpec == ClientStart /\ [][ClientNext]_vars

\* one client and its calls
CallStart ==
    /\ input = StringV("")
    /\ defaultScopeJoiner = "brackets"
    /\ result = NewState(Identity)
    /\ pc = "ready"
    /\ RegistryInit
    /\ walk = NoWalk
    /\ CallInit

CallNext ==
    \/ \E q \in QueryArgs : SetQuery(q)
    \/ \E nilReq \in BOOLEAN, opts \in CallOptionLists : ClientDo(1, nilReq, opts)
    \/ \E deadline \in {0, 3}, args \in BOOLEAN, opts \in CallOptionLists :
           ClientInvoke(1, deadline, args, opts)
    \/ \E outcome \in {"ok", "err"} : LimiterWait(outcome)
    \/ \E marshal \in {"ok", "err"} : InvokeRequest(marshal)
    \/ DoBefore
    \/ \E outcome \in {"200", "500", "err"} : DoSend(outcome)
    \/ DoAfter
    \/ \E bind \in {"ok", "err"} : DoReturn(bind)

CallSpec == CallStart /\ [][CallNext]_vars

(***************************************************************************)
(* C1.  When the custom encoder of a struct field returns an error, Values *)
(* returns exactly that error, every key written by the fields visited     *)
(* before it is still in the multimap, and no field after it in the        *)
(* traversal is visited: none of their keys is written and no other        *)
(* encoder is called.  This holds with the failing field in the root       *)
(* struct, in a nested struct field and in an embedded struct.             *)
(***************************************************************************)
\* the keys written before field E is reached, and those of the fields after it
C1_Earlier(shape) ==
    CASE shape = "root" -> ("a" :> <<"1">>)
      [] shape = "nested" -> ("a" :> <<"1">>) @@ ("s[p]" :> <<"3">>)
      [] shape = "embedded" -> ("a" :> <<"1">>) @@ ("b" :> <<"2">>) @@ ("p" :> <<"3">>)
      [] shape = "direct" -> ("a" :> <<"1">>)

C1_Later(shape) ==
    CASE shape = "root" -> {"b", "n"}
      [] shape = "nested" -> {"s[q]", "b", "n"}
      [] shape = "embedded" -> {"q"}
      [] shape = "direct" -> {"b", "p"}

C1_EncoderErrorStopsTraversal ==
    pc = "done" =>
        \A shape \in ErrorShapes, e \in FailingEncoders :
            input = ErrorInput(shape, e) =>
                /\ result.err = ErrEncoding
                /\ result.panic = ""
                /\ \A k \in DOMAIN C1_Earlier(shape) :
                       k \in DOMAIN result.values /\ result.values[k] = C1_Earlier(shape)[k]
                /\ C1_Later(shape) \cap DOMAIN result.values = {}
                /\ Len(result.calls) = 1

C1_Witness ==
    /\ pc = "done"
    /\ input = ErrorInput("embedded", customEncodedStrings(<<"a", "err">>))
    /\ result.err = ErrEncoding
    /\ "b" \in DOMAIN result.values

(***************************************************************************)
(* C2.  In struct traversal a field with effective name n visited under    *)
(* scope s gets the key n when s is empty and s[n] otherwise; the children *)
(* of a map or struct field are traversed with the parent's scope s when   *)
(* the tag has inline and no explicit name, and with the field's own key   *)
(* as scope in every other case, inline with an explicit name included.    *)
(***************************************************************************)
C2_Key(s, n) == IF s = "" THEN n ELSE s \o "[" \o n \o "]"

\* the key of entry k of a map traversed under scope s
C2_EntryKey(s, k) ==
    IF s = "" THEN k
    ELSE IF defaultScopeJoiner = "dot" THEN s \o "." \o k
    ELSE s \o "[" \o k \o "]"

\* the scope that each context traverses the struct under
C2_Scope(ctx) ==
    CASE ctx = "root" -> ""
      [] ctx = "p" -> "p"
      [] ctx = "pq" -> "p[q]"
      [] ctx = "m" -> "m"
      [] ctx = "mm" -> C2_EntryKey("m", "k")
      [] ctx = "pinline" -> ""
      [] ctx = "elem" -> "l[0]"

C2_Expected(ctx, q, child) ==
    LET s == C2_Scope(ctx)
        explicit == q # <<>> /\ Head(q) = "f"
        inline == "inline" \in {q[i] : i \in 1..Len(q)}
        key == C2_Key(s, IF explicit THEN "f" ELSE "F")
        childScope == IF inline /\ ~explicit THEN s ELSE key
        childKey == IF child.kind = "Map" THEN C2_EntryKey(childScope, "k")
                    ELSE C2_Key(childScope, "g")
    IN  (childKey :> <<"x">>) @@ (C2_Key(s, "h") :> <<"y">>)

C2_FieldKeyAndChildScope ==
    pc = "done" =>
        \A ctx \in ScopeContexts, q \in ScopeTags, child \in ScopeChildren :
            input = ScopeInput(ctx, q, child) =>
                /\ result.err = "" /\ result.panic = ""
                /\ result.values = C2_Expected(ctx, q, child)

C2_Witness ==
    /\ pc = "done"
    /\ input = ScopeInput("pq", <<"f">> \o Opt("inline"), MapV(<<Entry(StringV("k"), StringV("x"))>>))
    /\ defaultScopeJoiner = "dot"
    /\ DOMAIN result.values = {"p[q][f].k", "p[q][h]"}

(***************************************************************************)
(* What the claims below call an empty value: false, numeric zero, the     *)
(* empty string, slice, map or zero-length array, a nil pointer or         *)
(* interface, the zero time.                                               *)
(***************************************************************************)
ClaimedEmpty(v) ==
    \/ v.kind = "Bool" /\ ~v.b
    \/ v.kind = "Int" /\ v.n = 0
    \/ v.kind = "String" /\ v.s = ""
    \/ v.kind \in {"Slice", "Array"} /\ v.xs = <<>>
    \/ v.kind = "Map" /\ v.kv = <<>>
    \/ v.kind \in {"Ptr", "Interface"} /\ v.elem = <<>>
    \/ v.typ = timeType /\ v.b

HasOption(q, o) == o \in {q[i] : i \in 2..Len(q)}

\* the key of the field V of OneField(q, v)
OneFieldKey(q) == IF q # <<>> /\ Head(q) = "v" THEN "v" ELSE "V"

(***************************************************************************)
(* C3 (as amended).  A struct field tagged omitempty whose field value is  *)
(* empty contributes no key and its custom encoder is not invoked.         *)
(* Emptiness is judged on the field value before any pointer is            *)
(* dereferenced: a non-nil pointer to false, to a numeric zero, to the     *)
(* empty string, to the zero time or to a nil pointer is still emitted     *)
(* with one value, while a non-nil pointer to an empty slice, array or map *)
(* contributes no key, because an empty slice, array or map is skipped     *)
(* after dereferencing whatever the tag says.                              *)
(***************************************************************************)
C3_ScalarPointee(v) ==
    ClaimedEmpty(v) /\ v.kind \in {"Bool", "Int", "String", "Struct", "Ptr"}

C3_OmitEmpty ==
    pc = "done" =>
        \A q \in OneFieldTags, v \in FieldValues :
            input = OneField(q, v) /\ HasOption(q, "omitempty") =>
                /\ ClaimedEmpty(v) => result = NewState(result.iter)
                /\ v.kind = "Ptr" /\ ~IsNil(v) /\ C3_ScalarPointee(Elem(v)) =>
                       /\ result.err = "" /\ result.panic = ""
                       /\ DOMAIN result.values = {OneFieldKey(q)}
                       /\ Len(result.values[OneFieldKey(q)]) = 1
                /\ v.kind = "Ptr" /\ ~IsNil(v) /\ Elem(v).kind \in {"Slice", "Array", "Map"}
                       /\ ClaimedEmpty(Elem(v)) =>
                       result = NewState(result.iter)

C3_Witness ==
    /\ pc = "done"
    /\ input = OneField(Opt("omitempty"), PtrTo(StringV("")))
    /\ result.values = ("V" :> <<"">>)

\* C3 as claimed: every non-nil pointer to an empty value is still emitted,
\* in the calls that return
C3_Original ==
    pc = "done" /\ result.panic = "" =>
        \A q \in OneFieldTags, v \in FieldValues :
            input = OneField(q, v) /\ HasOption(q, "omitempty") =>
                /\ ClaimedEmpty(v) => result = NewState(result.iter)
                /\ v.kind = "Ptr" /\ ~IsNil(v) /\ ClaimedEmpty(Elem(v)) =>
                       DOMAIN result.values # {}

(***************************************************************************)
(* C4 (as amended).  A zero/empty struct field whose type is neither an    *)
(* interface nor a custom encoder is left out of the output when its tag   *)
(* requests omitempty, and also, whatever its tag, when it is an empty     *)
(* slice, array or map.  Every other zero/empty field without omitempty    *)
(* contributes exactly one value under its key, the rendering of the zero  *)
(* value: "" for the empty string, a nil pointer and the zero time, "0"    *)
(* for a numeric zero, "false" for false ("0" under the int option).       *)
(***************************************************************************)
C4_Fields == {v \in FieldValues : ClaimedEmpty(v) /\ ~Implements(v.typ) /\ v.kind # "Interface"}

C4_ZeroText(q, v) ==
    CASE v.kind = "Int" -> "0"
      [] v.kind = "Bool" -> IF HasOption(q, "int") THEN "0" ELSE "false"
      [] OTHER -> ""

C4_ZeroFields ==
    pc = "done" =>
        \A q \in OneFieldTags \ {<<"-">>}, v \in C4_Fields :
            input = OneField(q, v) =>
                /\ result.err = "" /\ result.panic = ""
                /\ result.values =
                       IF HasOption(q, "omitempty") \/ v.kind \in {"Slice", "Array", "Map"}
                       THEN NoValues
                       ELSE (OneFieldKey(q) :> <<C4_ZeroText(q, v)>>)

C4_Witness ==
    /\ pc = "done"
    /\ input = OneField(<<"v">>, IntV(0))
    /\ result.values = ("v" :> <<"0">>)

\* C4 as claimed: without omitempty, one empty-string value under the key
C4_Original ==
    pc = "done" /\ result.panic = "" =>
        \A q \in OneFieldTags \ {<<"-">>}, v \in C4_Fields :
            input = OneField(q, v) /\ ~HasOption(q, "omitempty") =>
                result.values = (OneFieldKey(q) :> <<"">>)

(***************************************************************************)
(* C6.  Values never fails on a nil: with a nil pointer or a nil interface *)
(* as a struct field, a map key or value, a slice element or a key or      *)
(* value of the pair mode, at any depth of pointer and interface nesting,  *)
(* Values returns without a panic.                                         *)
(***************************************************************************)
RECURSIVE HasNil(_)
HasNil(v) == v.kind \in {"Ptr", "Interface"} /\ (IsNil(v) \/ HasNil(Elem(v)))

C6_NilNeverPanics ==
    pc = "done" /\ (input \in NilInputs \/ \E q \in OneFieldTags, v \in FieldValues :
                        HasNil(v) /\ input = OneField(q, v))
        => result.panic = ""

(***************************************************************************)
(* C7 (as amended).  A struct field holding a nil pointer, whose type has  *)
(* no custom encoder, contributes exactly one empty-string value under its *)
(* key whatever the pointee type (and nothing under omitempty).  That is   *)
(* the encoding of the pointee's zero value when the pointee is a string   *)
(* or a time.Time; it is not for a nil *int (an int 0 gives "0"), for a    *)
(* nil pointer to a struct (the zero struct gives its fields' keys) or for *)
(* a nil pointer to a slice (an empty slice gives nothing).                *)
(***************************************************************************)
C7_Pointees == {<<"string">>, <<"int">>, <<"struct">>, <<"[]", "string">>, timeType}

C7_NilPointerField ==
    pc = "done" =>
        \A q \in OneFieldTags \ {<<"-">>}, typ \in C7_Pointees :
            input = OneField(q, NilPtr(typ)) =>
                /\ result.err = "" /\ result.panic = ""
                /\ result.values =
                       IF HasOption(q, "omitempty") THEN NoValues
                       ELSE (OneFieldKey(q) :> <<"">>)
                /\ typ \in {<<"string">>, timeType} =>
                       result.values = Values(OneField(q, Zero(typ)), result.iter).values

C7_Witness ==
    /\ pc = "done"
    /\ input = OneField(<<>>, NilPtr(<<"struct">>))
    /\ result.values = ("V" :> <<"">>)

\* C7 as claimed: the nil pointer is encoded as the zero value of the pointee
C7_Original ==
    pc = "done" =>
        \A q \in OneFieldTags \ {<<"-">>}, typ \in C7_Pointees :
            input = OneField(q, NilPtr(typ)) =>
                result.values = Values(OneField(q, Zero(typ)), result.iter).values

(***************************************************************************)
(* C5.  For a non-empty slice or array struct field the join mode is       *)
(* picked by the priority: the del tag first, then the comma, space or     *)
(* semicolon flag, then the brackets flag, then the repeated key; a field  *)
(* with a del delimiter and one of those flags is emitted as one value     *)
(* joined with the del delimiter.                                          *)
(***************************************************************************)
C5_Expected(q, del, v) ==
    LET parts == renderElements(v.xs, parseTag(q, Tagged("V", q, del, v)).opts).parts
    IN  IF del # "" THEN ("V" :> <<JoinStrings(parts, del)>>)
        ELSE IF HasOption(q, "comma") THEN ("V" :> <<JoinStrings(parts, ",")>>)
        ELSE IF HasOption(q, "space") THEN ("V" :> <<JoinStrings(parts, " ")>>)
        ELSE IF HasOption(q, "semicolon") THEN ("V" :> <<JoinStrings(parts, ";")>>)
        ELSE IF HasOption(q, "brackets") THEN ("V[]" :> parts)
        ELSE ("V" :> parts)

C5_DelFirst ==
    pc = "done" =>
        \A q \in JoinTags, del \in JoinDels, v \in JoinSlices :
            input = JoinInput(q, del, v) => result.values = C5_Expected(q, del, v)

(***************************************************************************)
(* C8.  For a root slice or array of scalar elements e0..e(n-1) the output *)
(* holds exactly the entries rendered(e(2i)) -> rendered(e(2i+1)) for      *)
(* 0 <= i < floor(n/2), added in order; a trailing unpaired element adds   *)
(* nothing and causes no error.                                            *)
(***************************************************************************)
RECURSIVE PairAdds(_)
PairAdds(xs) ==
    IF Len(xs) < 2 THEN <<>>
    ELSE <<<<"Add", valueString(xs[1], NilOpts).s, valueString(xs[2], NilOpts).s>>>>
         \o PairAdds(SubSeq(xs, 3, Len(xs)))

C8_RootPairs ==
    pc = "done" /\ input \in RootSliceInputs =>
        /\ result.err = "" /\ result.panic = ""
        /\ result.adds = PairAdds(input.xs)

(***************************************************************************)
(* C9 (as amended).  When a slice is traversed as a nested value, its      *)
(* non-empty plain scalar elements are consumed two at a time.  Under an   *)
(* empty scope (a slice that is an element of a root slice) each two are   *)
(* added as a key and its value, as in the root pair mode, and a trailing  *)
(* unpaired scalar is dropped.  Under a non-empty scope (a slice that is   *)
(* the value of a map entry) both are added as values under the scope key  *)
(* itself; a trailing unpaired scalar is added under the scope key and     *)
(* Values then panics with a slice index out of range.  Map and struct     *)
(* elements are traversed at the current scope.                            *)
(***************************************************************************)
UnderKey(k, xs) == [i \in 1..Len(xs) |-> <<"Add", k, xs[i].s>>]

OddPanic(xs) == IF Len(xs) % 2 = 1 THEN PanicIndex ELSE ""

C10_Scope(in) == IF in.kind = "Map" THEN "" ELSE "m"
C10_Map(in) == IF in.kind = "Map" THEN in ELSE in.fs[1].v

C10_MapOrderIndependent ==
    pc = "done" /\ input \in MapInputs =>
        /\ \A i \in 1..Len(C10_Map(input).kv) :
               LET e == C10_Map(input).kv[i]
                   key == mapKey(C10_Scope(input), valueString(e.k, NilOpts).s)
               IN  /\ IsNil(e.v) => key \notin DOMAIN result.values
                   /\ Elem(e.v).kind = "String" =>
                          /\ key \in DOMAIN result.values
                          /\ \E j \in 1..Len(result.values[key]) :
                                 result.values[key][j] = Elem(e.v).s
        /\ result.values = Values(input, Identity).values

(***************************************************************************)
(* C11 (as amended).  For a non-empty slice or array struct field that is  *)
(* not joined by a delimiter, element j is emitted under the key name[]    *)
(* with brackets, name followed by j with numbered, name[j] with idx, and  *)
(* name otherwise; an element that is a map or struct is traversed with    *)
(* that per-element key as scope; every scalar element that is not empty   *)
(* is rendered directly, in element order, and an empty scalar element is  *)
(* skipped, so a slice of n scalars contributes one value for each of its  *)
(* elements that is not empty.                                             *)
(***************************************************************************)
C11_Key(q, j) ==
    IF HasOption(q, "brackets") THEN OneFieldKey(q) \o "[]"
    ELSE IF HasOption(q, "numbered") THEN OneFieldKey(q) \o Itoa(j)
    ELSE IF HasOption(q, "idx") THEN OneFieldKey(q) \o "[" \o Itoa(j) \o "]"
    ELSE OneFieldKey(q)

\* the values of the elements xs[j..], element j - 1 of the slice first
RECURSIVE C11_Adds(_, _, _, _)
C11_Adds(q, xs, j, all) ==
    IF j > Len(xs) THEN <<>>
    ELSE LET x == xs[j]
             k == C11_Key(q, j - 1)
             here == IF x.kind = "Map" THEN <<<<"Add", joinScope(k, "a"), "1">>>>
                     ELSE IF x.kind = "Struct" THEN <<<<"Add", k \o "[g]", "x">>>>
                     ELSE IF x.s = "" /\ ~all THEN <<>>
                     ELSE <<<<"Add", k, x.s>>>>
         IN  here \o C11_Adds(q, xs, j + 1, all)

C11_SliceElements ==
    pc = "done" =>
        \A q \in ElementTags, xs \in ElementScalars \cup ElementContainers :
            input = ElementInput(q, xs) =>
                /\ result.err = "" /\ result.panic = ""
                /\ result.adds = C11_Adds(q, xs, 1, FALSE)

C11_Witness ==
    /\ pc = "done"
    /\ input = ElementInput(Opt("idx"), <<StringV("a"), StringV(""), StringV("b")>>)
    /\ result.values = ("V[0]" :> <<"a">>) @@ ("V[2]" :> <<"b">>)

\* C11 as claimed: a slice of n scalars contributes exactly n values
C11_Original ==
    pc = "done" =>
        \A q \in ElementTags, xs \in ElementScalars \cup ElementContainers :
            input = ElementInput(q, xs) =>
                /\ result.err = "" /\ result.panic = ""
                /\ result.adds = C11_Adds(q, xs, 1, TRUE)

(***************************************************************************)
(* C12.  In struct traversal every value contributed by a struct's direct  *)
(* fields, nested descendants included, is added before any value of its   *)
(* embedded fields; the embedded fields are traversed with the parent's    *)
(* own scope; when a direct and an embedded field write the same key the   *)
(* direct field's value comes first in that key's sequence.                *)
(***************************************************************************)
C12_Key(ctx, name) == IF ctx = "p" THEN "p[" \o name \o "]" ELSE name

C12_Direct(ctx, shape) ==
    (IF shape = "nested" THEN <<<<"Add", C12_Key(ctx, "n") \o "[v]", "d">>>> ELSE <<>>)
    \o <<<<"Add", C12_Key(ctx, "V"), "b">>>>

C12_Embedded(ctx, shape) ==
    (IF shape = "deep" THEN <<<<"Add", C12_Key(ctx, "V"), "m">>>> ELSE <<>>)
    \o <<<<"Add", C12_Key(ctx, "V"), "a">>, <<"Add", C12_Key(ctx, "w"), "c">>>>

C12_DirectBeforeEmbedded ==
    pc = "done" =>
        \A ctx \in {"root", "p"}, shape \in EmbeddedShapes :
            input = EmbeddedInput(ctx, shape) =>
                /\ result.err = "" /\ result.panic = ""
                /\ result.adds = C12_Direct(ctx, shape) \o C12_Embedded(ctx, shape)
                /\ result.values[C12_Key(ctx, "V")][1] = "b"

C12_Witness ==
    /\ pc = "done"
    /\ input = EmbeddedInput("p", "deep")
    /\ result.values = ("p[V]" :> <<"b", "m", "a">>) @@ ("p[w]" :> <<"c">>)

(***************************************************************************)
(* C13.  A struct field whose type implements Encoder, and which is not    *)
(* skipped by "-" or omitempty, is encoded only by calling its             *)
(* EncodeValues once with the field's scoped key: generic rendering adds   *)
(* nothing for it.  For a nil pointer whose pointee type implements        *)
(* Encoder with a value receiver the hook runs on a freshly made zero      *)
(* instance, and for a pointer-receiver Encoder on the nil pointer itself. *)
(***************************************************************************)
C13_Receiver(v) ==
    IF v.kind = "Ptr" /\ IsNil(v) /\ v.typ # <<"*", "customEncodedIntPtr">>
    THEN New(TypeElem(v.typ))
    ELSE IF v.kind = "Interface" THEN Elem(v) ELSE v

C13_EncoderCalledOnce ==
    pc = "done" =>
        \A q \in OneFieldTags \ {<<"-">>}, v \in Encoders :
            /\ input = OneField(q, v)
            /\ Implements(v.typ)
            /\ ~(HasOption(q, "omitempty") /\ ClaimedEmpty(v))
            => /\ result.panic = ""
               /\ Len(result.calls) = 1
               /\ result.calls[1] = <<OneFieldKey(q), C13_Receiver(v)>>
               /\ \A i \in 1..Len(result.adds) : result.adds[i][1] = "Set"


(***************************************************************************)
(* C14. Round trip: when Values encodes its input without error into a     *)
(* multimap in which every key has at least one value, the query string    *)
(* that Encode renders of the multimap, and the url.Values parsed from     *)
(* that string, are both encoded by Values without error into a multimap   *)
(* with the same keys and the same value sequence under each key.          *)
(***************************************************************************)
\* what Values returns for the rendered string and for the multimap parsed
\* from it
C14_Again(m, iter) ==
    LET s == Encode(m)
    IN  {Values(StringV(s), iter), Values(UrlValuesV(parseQuery(NoValues, "", s).values), iter)}

C14_Same(m, iter) ==
    \A R \in C14_Again(m, iter) : ~Failed(R) /\ R.values = m

C14_RoundTrip ==
    (/\ pc = "done"
     /\ ~Failed(result)
     /\ \A k \in DOMAIN result.values : result.values[k] # <<>>)
    => C14_Same(result.values, result.iter)

\* a struct whose keys and values need escaping makes the round trip
C14_Witness ==
    /\ pc = "done"
    /\ ~Failed(result)
    /\ input.kind = "Struct"
    /\ \E k \in DOMAIN result.values :
          /\ QueryEscape(k) # k
          /\ result.values[k] # <<>>
    /\ C14_Same(result.values, result.iter)

\* the claim as stated: the round trip of every input encoded without error
C14_Original ==
    (pc = "done" /\ ~Failed(result)) => C14_Same(result.values, result.iter)

(***************************************************************************)
(* C15. Frame: the url.Values that Values returns shares no storage with   *)
(* the input, so a value that the caller adds to it afterwards leaves the  *)
(* caller's input as it was, for every kind of input, a url.Values         *)
(* included.                                                               *)
(***************************************************************************)
C15_InputUnchangedByCaller ==
    [][(pc = "done" /\ pc' = "changed") => input' = input]_vars

(***************************************************************************)
(* C16. The registry's lock guards every access: no goroutine is reading   *)
(* the subtype-to-codec-name map (in CodecForString, CodecForRequest,      *)
(* CodecForResponse or Client.Invoke) while another goroutine is writing   *)
(* it (in RegisterCodec or RegisterCodecName).                             *)
(***************************************************************************)
C16_NoReadDuringWrite ==
    \A r, w \in Goroutines :
        ~(goroutine[r].pc = "get.reading" /\ goroutine[w].pc = "set.assigning")

(***************************************************************************)
(* C17. Of the join styles comma, space, semicolon and brackets that a     *)
(* tag lists, one is applied to the slice field, and it is the first of    *)
(* them in the order comma, space, semicolon, brackets, wherever it stands *)
(* in the tag.                                                             *)
(***************************************************************************)
C17_Styles == <<"comma", "space", "semicolon", "brackets">>

\* the join styles of the tag q in the order the tag lists them, and in the
\* order of C17_Styles
C17_Declared(q) == SelectSeq(q, LAMBDA o : o \in {C17_Styles[i] : i \in 1..4})
C17_Ranked(q) == SelectSeq(C17_Styles, LAMBDA s : HasOption(q, s))

\* the multimap of the field V joined in the given style: one value of all
\* the elements, or under V[] a value for each element that is not empty
C17_Joined(style, q, del, v) ==
    LET opts == parseTag(q, Tagged("V", q, del, v)).opts
        parts == renderElements(v.xs, opts).parts
        each == renderElements(SelectSeq(v.xs, LAMBDA x : ~isEmptyValue(x)), opts).parts
    IN  CASE style = "comma" -> ("V" :> <<JoinStrings(parts, ",")>>)
          [] style = "space" -> ("V" :> <<JoinStrings(parts, " ")>>)
          [] style = "semicolon" -> ("V" :> <<JoinStrings(parts, ";")>>)
          [] style = "brackets" -> IF each = <<>> THEN NoValues ELSE ("V[]" :> each)

C17_FixedOrderWins ==
    pc = "done" =>
        \A q \in JoinTags, del \in JoinDels, v \in JoinSlices :
            (input = JoinInput(q, del, v) /\ C17_Declared(q) # <<>>) =>
                result.values = C17_Joined(C17_Ranked(q)[1], q, del, v)

\* brackets stands before comma in the tag, and the elements are joined with
\* a comma
C17_Witness ==
    /\ pc = "done"
    /\ input = JoinInput(Opt("brackets") \o Opt("comma"), "",
                         SliceV(<<"string">>, <<StringV("a"), StringV("b")>>))
    /\ result.values = ("V" :> <<"a,b">>)

\* the claim as stated: the style standing first in the tag is applied
C17_Original ==
    pc = "done" =>
        \A q \in JoinTags, del \in JoinDels, v \in JoinSlices :
            (input = JoinInput(q, del, v) /\ C17_Declared(q) # <<>>) =>
                result.values = C17_Joined(C17_Declared(q)[1], q, del, v)

(***************************************************************************)
(* C18. A del option written inside the query tag is the join delimiter:   *)
(* the []bool field V tagged `query:",int,del:!"` with the elements true   *)
(* and false is encoded as the one value "1!0" under the key V.            *)
(***************************************************************************)
C18_DelInsideQueryTag ==
    (/\ pc = "done"
     /\ input = JoinInput(Opt("int") \o <<",", "del", ":", "!">>, "",
                          SliceV(<<"bool">>, <<BoolV(TRUE), BoolV(FALSE)>>)))
    => result.values = ("V" :> <<"1!0">>)


(***************************************************************************)
(* C19. Root dispatch: a nil root and a root that is a nil pointer, or     *)
(* leads through pointers to one, give the empty multimap and no error; a  *)
(* root that leads through pointers to a value that neither is nor holds a *)
(* string, a byte slice, a map, a slice, an array or a struct gives the    *)
(* UnsupportedKind error and the empty multimap; no such root has another  *)
(* outcome.                                                                *)
(***************************************************************************)
\* the root is nil, or a pointer chain that ends in nil
C19_NilRoot(v) ==
    (v.kind = "Interface" /\ IsNil(v)) \/ derefPointers(v).kind = "Ptr"

\* the value at the end of the root's pointers, or what it holds when it is
\* an interface, is of an accepted kind
C19_Accepted(v) ==
    LET val == derefPointers(v)
        held == IF val.kind = "Interface" /\ ~IsNil(val) THEN Elem(val) ELSE val
    IN  held.kind \in {"String", "Map", "Slice", "Array", "Struct"}

C19_RootDispatch ==
    (pc = "done" /\ ~C19_Accepted(input)) =>
        IF C19_NilRoot(input) THEN result = NewState(result.iter)
        ELSE result = Error(NewState(result.iter), ErrUnsupportedKind)

\* a pointer to an int is refused, a nil pointer to a struct is not
C19_Witness ==
    /\ pc = "done"
    /\ \/ input = PtrTo(IntV(1)) /\ result.err = ErrUnsupportedKind
       \/ input = NilPtr(<<"struct">>) /\ result.err = ""
    /\ result.values = NoValues


(***************************************************************************)
(* C20. A time field that is not the zero time is rendered by one rule,    *)
(* the first that applies of: the unix flag (seconds since the epoch), the *)
(* unixmilli flag, the unixnano flag, the layout tag, RFC3339; the zero    *)
(* time is rendered as the empty string whatever the options.              *)
(***************************************************************************)
C20_Text(q, layout, t) ==
    IF t.b THEN ""
    ELSE IF HasOption(q, "unix") THEN Itoa(t.n)
    ELSE IF HasOption(q, "unixmilli") THEN Itoa(t.n) \o "000"
    ELSE IF HasOption(q, "unixnano") THEN Itoa(t.n) \o "000000000"
    ELSE IF layout # "" THEN Format(t, layout)
    ELSE Format(t, RFC3339)

C20_TimeRules ==
    pc = "done" =>
        \A q \in TimeTags, layout \in {"", "2006-01-02"} :
            \A t \in {TimeV(zero, sec) : zero \in BOOLEAN, sec \in 0..2} :
                \A v \in {t, PtrTo(t)} :
                    input = TimeInput(q, layout, v) =>
                        result.values = ("V" :> <<C20_Text(q, layout, t)>>)

\* the unix flag wins over the unixnano flag written before it and over the
\* layout tag
C20_Witness ==
    /\ pc = "done"
    /\ input = TimeInput(Opt("unixnano") \o Opt("unix"), "2006-01-02", TimeV(FALSE, 2))
    /\ result.values = ("V" :> <<"2">>)


(***************************************************************************)
(* C21. A field whose whole tag is "-" is omitted whatever its value: the  *)
(* call adds nothing, calls no encoder and does not fail.  A field whose   *)
(* tag is "-," with or without further options is not omitted for its      *)
(* tag: it is encoded as the field named "v" with the same options is,     *)
(* with "-" in the place of "v" in every key, and a scalar field that is   *)
(* not empty gives one value under the key "-".                            *)
(***************************************************************************)
\* the key k of a field named "v" as the key of a field named "-"
C21_Dashed(k) == "-" \o SubSeq(k, 2, Len(k))

\* the multimap m of a field named "v" as the multimap of a field named "-"
C21_DashedValues(m) ==
    [k \in {C21_Dashed(x) : x \in DOMAIN m} |->
        m[CHOOSE x \in DOMAIN m : C21_Dashed(x) = k]]

C21_DashTag ==
    pc = "done" =>
        \A q \in DashTags, v \in FieldValues :
            input = OneField(q, v) =>
                IF q = <<"-">> THEN result = NewState(result.iter)
                ELSE LET named == Values(OneField(<<"v">> \o Tail(q), v), result.iter)
                     IN  /\ result.values = C21_DashedValues(named.values)
                         /\ result.err = named.err
                         /\ result.panic = named.panic
                         /\ (v \in Scalars /\ ~ClaimedEmpty(v)) =>
                                /\ DOMAIN result.values = {"-"}
                                /\ Len(result.values["-"]) = 1

\* the string field tagged "-," is encoded under the key "-"
C21_Witness ==
    /\ pc = "done"
    /\ input = OneField(<<"-", ",">>, StringV("a"))
    /\ result.values = ("-" :> <<"a">>)

(***************************************************************************)
(* C22. Values completes on every finite input without a cycle: every call *)
(* of the traversal returns, and the number of calls open at one time      *)
(* never exceeds the nesting depth of the input.  On a struct that reaches *)
(* itself through a pointer field the calls pile up without end and Values *)
(* never returns.                                                          *)
(***************************************************************************)
C22_Cyclic == input \in CyclicInputs

C22_Completes ==
    /\ [](~C22_Cyclic => Len(walk.stack) <= Nesting(input))
    /\ (~C22_Cyclic ~> walk.pc = "done")
    /\ [](C22_Cyclic => walk.pc # "done")
    /\ (C22_Cyclic ~> Len(walk.stack) = MaxDepth)

\* a traversal three calls deep has returned
C22_Witness ==
    /\ walk.pc = "done"
    /\ walk.deepest >= 3
    /\ walk.deepest = Nesting(input)


(***************************************************************************)
(* C28. A slice of n >= 1 scalars that are not empty, traversed under a    *)
(* scope that is not empty (as the value of a map entry, as a slice nested *)
(* in a slice field), makes Values return without failure, whether n is    *)
(* odd or even, and the scope key maps to the n rendered elements in the   *)
(* order of the elements.                                                  *)
(***************************************************************************)
C28_Elements(k, xs) == (k :> [i \in 1..Len(xs) |-> xs[i].s])

C28_NestedSliceAnyLength ==
    pc = "done" =>
        \A xs \in NestedScalars :
            /\ input = InEntry(ScalarSlice(xs)) =>
                   ~Failed(result) /\ result.values = C28_Elements("k", xs)
            /\ input = InField(ScalarSlice(xs)) =>
                   ~Failed(result) /\ result.values = C28_Elements("V", xs)


(***************************************************************************)
(* C29. The scope joiner is applied uniformly: after SetScopeJoiner(f)     *)
(* every nested key that Values produces, of a struct field as of a map    *)
(* entry, is f(scope, name), so the keys of one input are never built by   *)
(* two join rules.                                                         *)
(***************************************************************************)
\* the joiner that SetScopeJoiner has set, applied under a scope
C29_Join(s, n) ==
    IF s = "" THEN n
    ELSE IF defaultScopeJoiner = "dot" THEN s \o "." \o n
    ELSE s \o "[" \o n \o "]"

\* the scope of each context, every level joined by the joiner; the key of
\* element 0 of the slice field l is l[0] by the field's idx option
C29_Scope(ctx) ==
    CASE ctx = "root" -> ""
      [] ctx = "p" -> "p"
      [] ctx = "pq" -> C29_Join("p", "q")
      [] ctx = "m" -> "m"
      [] ctx = "mm" -> C29_Join("m", "k")
      [] ctx = "pinline" -> ""
      [] ctx = "elem" -> "l[0]"

C29_Expected(ctx, q, child) ==
    LET s == C29_Scope(ctx)
        explicit == q # <<>> /\ Head(q) = "f"
        inline == "inline" \in {q[i] : i \in 1..Len(q)}
        key == C29_Join(s, IF explicit THEN "f" ELSE "F")
        childScope == IF inline /\ ~explicit THEN s ELSE key
    IN  (C29_Join(childScope, IF child.kind = "Map" THEN "k" ELSE "g") :> <<"x">>)
        @@ (C29_Join(s, "h") :> <<"y">>)

C29_UniformJoin ==
    pc = "done" =>
        \A ctx \in ScopeContexts, q \in ScopeTags, child \in ScopeChildren :
            input = ScopeInput(ctx, q, child) =>
                result.values = C29_Expected(ctx, q, child)


(***************************************************************************)
(* C27. For a content type of the form type/[vendor+]sub[;params],         *)
(* subContentType returns sub: the text between the first "/" and the      *)
(* first ";" (or the end), without the vendor part up to the "+"; it       *)
(* returns the empty string when the content type is empty, has no "/", or *)
(* has its first ";" before its first "/".                                 *)
(***************************************************************************)
\* sub, read off the content type by cutting it at ";", "/" and "+"
C27_Sub(ct) ==
    LET media == Cut(ct, ";").before
        slash == Cut(media, "/")
        plus == Cut(slash.after, "+")
    IN  IF ~slash.found THEN ""
        ELSE IF plus.found THEN plus.after
        ELSE slash.after

C27_SubContentType ==
    \A i \in 1..Len(clients) :
        clients[i].contentSubType = C27_Sub(clients[i].opts.contentType)

\* a vendor content type with a parameter, and a content type whose ";"
\* stands before its "/"
C27_Witness ==
    /\ Len(clients) = 2
    /\ clients[1].opts.contentType = "application/vnd.api+json; charset=utf-8"
    /\ clients[1].contentSubType = "json"
    /\ clients[2].opts.contentType = "a;b/c"
    /\ clients[2].contentSubType = ""

(***************************************************************************)
(* C30. NewClient with WithTLSConfig or WithProxy and no WithTransport     *)
(* changes the TLS and proxy settings of the new client only: the          *)
(* process-wide default transport stays as it was, and so does the         *)
(* transport configuration of every other client made without those        *)
(* options, before or after.                                               *)
(***************************************************************************)
C30_OtherClientsUnchanged ==
    /\ transports["http.DefaultTransport"] = DefaultTransport
    /\ \A i \in 1..Len(clients) :
           clients[i].opts = defaultOptions =>
               transports[clients[i].hc.Transport] = DefaultTransport


(***************************************************************************)
(* C23. In Client.Do and Client.Invoke the Before callbacks of the call    *)
(* options run in the order the options were given, and all of them have   *)
(* finished when the request is sent; when a Before returns an error no    *)
(* later Before runs, the request is not sent, no After runs and an error  *)
(* is returned; the After callbacks run in option order, and only after a  *)
(* response was received without transport error; the first After error    *)
(* stops the remaining ones and is returned in place of the response.      *)
(***************************************************************************)
\* the positions in the trace of the steps of one kind
C23_Steps(what) == {p \in 1..Len(call.trace) : call.trace[p].what = what}

\* the steps at the positions P are those of the options 1, 2, ... in order
C23_InOptionOrder(P) ==
    /\ {call.trace[p].i : p \in P} = 1..Cardinality(P)
    /\ \A p, r \in P : p < r => call.trace[p].i < call.trace[r].i

\* the step at position p was the last, and the call returned an error
C23_EndsCall(p) ==
    /\ p = Len(call.trace)
    /\ call.pc = "returned"
    /\ call.err # "" /\ call.response = ""

C23_CallbackOrder ==
    LET B == C23_Steps("Before")
        S == C23_Steps("Send")
        A == C23_Steps("After")
    IN  /\ C23_InOptionOrder(B) /\ C23_InOptionOrder(A)
        /\ Cardinality(S) <= 1
        /\ \A s \in S :
              /\ Cardinality(B) = Len(call.opts)
              /\ \A p \in B : p < s /\ call.trace[p].outcome = "ok"
        /\ \A p \in B : call.trace[p].outcome = "err" => C23_EndsCall(p)
        /\ \A a \in A : \E s \in S : s < a /\ call.trace[s].outcome # "err"
        /\ \A a \in A : call.trace[a].outcome = "err" =>
              C23_EndsCall(a) /\ call.err = ErrAfterHook

\* two options: both Before, the round trip, the first After, and the second
\* After fails
C23_Witness ==
    /\ call.pc = "returned"
    /\ call.err = ErrAfterHook
    /\ [p \in 1..Len(call.trace) |-> call.trace[p].what]
           = <<"Before", "Before", "Send", "After", "After">>
    /\ call.trace[2].i = 2 /\ call.trace[5] = Event("After", 2, "err")

(***************************************************************************)
(* C24 (as amended). When a Limiter is configured, each call of            *)
(* Client.Invoke, and each call of Client.Do with a request that is not    *)
(* nil, calls Limiter.Wait once, before the Before of any call option runs *)
(* and before the request is sent; if Wait returns an error, that error is *)
(* returned, no Before or After runs and no request is sent.  Client.Do    *)
(* with a nil request returns an error without calling Wait.               *)
(***************************************************************************)
C24_Limited == call.c # 0 /\ clients[call.c].opts.limiter

C24_NilRequest == call.op = "Do" /\ call.req.nil

C24_WaitFirst ==
    IF call.pc = "wait" THEN call.trace = <<>>
    ELSE /\ call.trace # <<>>
         /\ C23_Steps("Wait") = {1}
         /\ call.trace[1].outcome = "err" =>
                /\ Len(call.trace) = 1
                /\ call.pc = "returned"
                /\ call.err = ErrLimiter /\ call.response = ""

C24_WaitOnce ==
    C24_Limited =>
        IF C24_NilRequest THEN call.trace = <<>> /\ call.err = ErrNilRequest
        ELSE C24_WaitFirst

\* Wait, two Before callbacks and the round trip, in that order
C24_Witness ==
    /\ C24_Limited
    /\ [p \in 1..Len(call.trace) |-> call.trace[p].what]
           = <<"Wait", "Before", "Before", "Send">>

\* the claim as stated: every call of Client.Do and Client.Invoke
C24_Original == C24_Limited => C24_WaitFirst

(***************************************************************************)
(* C25. SetQuery and the Query call option change the raw query of the     *)
(* request and nothing else: an encoded query that is not empty becomes    *)
(* the raw query when the request had none, and is otherwise appended      *)
(* after one "&" to the raw query there was; when q is nil, encodes to the *)
(* empty string or fails to encode, the raw query is left as it was, and   *)
(* the error of the encoding is returned.                                  *)
(***************************************************************************)
\* the raw query that the claim gives for the request's raw query and the
\* encoding R of q
C25_RawQuery(rawQuery, R) ==
    IF Failed(R) \/ Encode(R.values) = "" THEN rawQuery
    ELSE IF rawQuery = "" THEN Encode(R.values)
    ELSE rawQuery \o "&" \o Encode(R.values)

C25_Claimed(e, R) ==
    /\ e.got.req = [e.req EXCEPT !.RawQuery = C25_RawQuery(@, R)]
    /\ SubSeq(e.got.req.RawQuery, 1, Len(e.req.RawQuery)) = e.req.RawQuery
    /\ e.got.err = R.err
    /\ call.pc \notin {"returned", "panicked"} => call.req = e.got.req

C25_OnlyRawQuery ==
    \A p \in 1..Len(call.set) : C25_Claimed(call.set[p], Values(call.set[p].q, Identity))

\* a struct encoded behind the query the request had, by SetQuery and by the
\* Query option
C25_Witness ==
    /\ call.set # <<>>
    /\ call.set[1].req.RawQuery = "x=1"
    /\ call.set[1].got.req.RawQuery = "x=1&V=a+b"
    /\ call.req.RawQuery = "x=1&V=a+b"

(***************************************************************************)
(* C26. The client's default timeout is applied to a request only when the *)
(* request's context carries no deadline: a deadline set by the caller is  *)
(* not replaced, extended or shortened, and with a client timeout of zero  *)
(* or less no deadline is added.                                           *)
(***************************************************************************)
\* the deadline the claim gives the call: the caller's, else the client's
\* timeout from the instant of the call
C26_Deadline ==
    IF call.given # 0 THEN call.given
    ELSE IF clients[call.c].opts.timeout > 0 THEN clients[call.c].opts.timeout
    ELSE 0

C26_DefaultTimeout ==
    (call.c # 0 /\ ~C24_NilRequest) =>
        /\ call.ctx = C26_Deadline
        /\ \A p \in C23_Steps("Wait") \cup C23_Steps("Send") :
               call.trace[p].i = C26_Deadline

\* a request with the caller's deadline 3 is sent by a client whose timeout
\* is 5
C26_Witness ==
    /\ call.pc = "returned"
    /\ call.given = 3
    /\ clients[call.c].opts.timeout = 5
    /\ \E p \in C23_Steps("Send") : call.trace[p].i = 3

====
